---- MODULE Spec2Model ----
(***************************************************************************)
(* Conversation core of the social API (src/routes/chats.js): chat         *)
(* identity derivation, get-or-create chat, send message, list messages    *)
(* and mark chat read, each request handler split at its awaits on the     *)
(* document store.  A transaction or batch commits in one step; what a     *)
(* handler read before its commit stays in its locals (chatData, snap).    *)
(* The notification dispatch that follows a send (243-263) writes neither  *)
(* chats nor messages: SendCommit answers without it, SendCommitDispatch   *)
(* goes on with it (src/utils/notifications.js), as do follow            *)
(* (chats.js 546-615), like and comment (src/unnamed/part_003).  The       *)
(* dispatcher is split at its awaits too: the write of the record, the     *)
(* lookup of the recipient, and the settling of each push attempt, whose   *)
(* outcome the push gateway decides.  Store operations that a claim lets    *)
(* fail (transactions, the writes and reads of the dispatcher) may fail.    *)
(* Further: unfollow (chats.js 622-670), the listing and marking of        *)
(* notifications (notifications.js 94-160), and the middleware             *)
(* validateFirebaseToken (src/unnamed/part_002) in front of the routers.   *)
(* An id handed to collection.doc() that is not a document id makes it     *)
(* throw, which the handler's catch answers with 500.                      *)
(***************************************************************************)
EXTENDS Integers, Sequences, FiniteSets, TLC

(* ------------------------------------------------------------------ *)
(* Bounds                                                              *)
(* ------------------------------------------------------------------ *)
\* number of requests in flight at the same time
MaxReq == 2
\* number of messages sent
MaxMsgs == 2
\* the clock stops advancing here
MaxClock == 3
\* longest user id the chat identity is derived for in SpecDerive
MaxIdLen == 2
\* largest page size a list-messages request asks for
MaxLimit == 2
\* number of messages sent while a client pages through a chat (SpecPage)
MaxPageMsgs == 3
\* number of comments added
MaxComments == 2
\* number of notifications follow, like and comment requests may add
MaxNotifs == 2

(* ------------------------------------------------------------------ *)
(* Values                                                              *)
(* ------------------------------------------------------------------ *)
\* ids are strings, modelled as sequences of characters
Alphabet == {"_", "a", "b"}

\* UTF-16 code unit of a character, the key of Array.prototype.sort
CharCode(c) ==
  CASE c = "_" -> 95 [] c = "a" -> 97 [] c = "b" -> 98 [] c = "c" -> 99
    [] c = "/" -> 47

ua == <<"a">>
ub == <<"b">>
uc == <<"c">>

\* the users who have signed up: the domain of the collection users, but
\* where uc has signed up as well
UserIds == {ua, ub}

\* the principals the identity provider knows: uc has no user document and
\* takes part in no chat
Callers == {ua, ub, uc}

\* push registration tokens
Tokens == {"t1", "t2"}

\* JavaScript's undefined, and the property key it turns into
Undefined == <<"undefined">>

\* absent document / absent value
NoDoc == [exists |-> FALSE]
NoId == 0

\* an id no document of the collection has
MissingId == 0 - 1

\* a string that is not a document id: it holds a '/' ('a/b'), of which
\* collection.doc() throws
BadId == 0 - 2

\* collection.doc(id) returns a reference
IsDocId(id) == id # BadId

\* the same for ids written out as strings: 'a/b' is the id of no user
BadUserId == <<"a", "/", "b">>
IsDocPath(id) == \A k \in 1..Len(id) : id[k] # "/"

RECURSIVE StrLess(_, _)
\* s < t as JavaScript compares strings: code unit by code unit, a proper
\* prefix first
StrLess(s, t) ==
  IF t = <<>> THEN FALSE
  ELSE IF s = <<>> THEN TRUE
  ELSE IF CharCode(Head(s)) < CharCode(Head(t)) THEN TRUE
  ELSE IF CharCode(Head(s)) > CharCode(Head(t)) THEN FALSE
  ELSE StrLess(Tail(s), Tail(t))

\* [x, y].sort()
SortPairAsGiven(x, y) == <<x, y>>
SortPair(x, y) == IF StrLess(y, x) THEN <<y, x>> ELSE <<x, y>>

\* participants.join('_')
JoinPair(p) == p[1] \o <<"_">> \o p[2]

\* chats.js 86-87: the chat id of caller uid and otherUserId
DeriveChatId(uid, otherUserId) == JoinPair(SortPair(uid, otherUserId))

\* chatData.participants.find(id => id !== uid)
OtherParticipant(participants, uid) ==
  IF participants[1] # uid THEN participants[1]
  ELSE IF participants[2] # uid THEN participants[2]
  ELSE Undefined

\* obj[k] || 0
GetOr0(f, k) == IF k \in DOMAIN f THEN f[k] ELSE 0

\* { ...obj, [k]: v }
SetKey(f, k, v) == [x \in (DOMAIN f) \cup {k} |-> IF x = k THEN v ELSE f[x]]

\* Math.max(0, n)
Max0(n) == IF n < 0 THEN 0 ELSE n

\* text.trim() === '' for the texts of the model
IsBlank(text) == text \in {"", " "}

\* request bodies of send-message: text, mediaUrl, type
Payloads ==
  { [text |-> "hi", mediaUrl |-> "", type |-> "text"],
    [text |-> "yo", mediaUrl |-> "u", type |-> "image"],
    [text |-> " ", mediaUrl |-> "", type |-> "text"] }

\* the text bodies among them
TextPayloads == {p \in Payloads : p.type = "text"}

\* bodies of every kind a caller can submit: type is any string, text and
\* mediaUrl may be missing
AnyKindPayloads ==
  Payloads \cup { [text |-> "", mediaUrl |-> "", type |-> "video"],
                  [text |-> "", mediaUrl |-> "v", type |-> "video"] }

\* (caller, otherUserId) pairs of get-or-create requests
CreatePairs == {<<ua, ub>>, <<ub, ua>>}

\* (caller, otherUserId) pairs of any caller with any other principal, and
\* with a string that is no user's id; ub and uc ask for no chat with each
\* other
AnyCreatePairs ==
  {<<ua, ub>>, <<ub, ua>>, <<ua, uc>>, <<uc, ua>>,
   <<ua, BadUserId>>, <<uc, BadUserId>>}

\* the chat ids requests address
ChatIds == {DeriveChatId(p[1], p[2]) : p \in CreatePairs}

\* the chat ids of the store: those, and the chat uc, who has no user
\* document, may have created with ua
AllChatIds == ChatIds \cup {DeriveChatId(uc, ua)}

Reqs == 1..MaxReq
Limits == 1..MaxLimit

(* ------------------------------------------------------------------ *)
(* State                                                               *)
(* ------------------------------------------------------------------ *)
VARIABLES
  chats,     \* collection chats: chat id -> document or NoDoc
  messages,  \* collection messages, in commit order; the index is the id
  reqs,      \* the requests in flight: position in the handler, locals
  resp,      \* the response sent last
  clock,     \* the value of the last new Date()
  derive,    \* inputs and results of the identity derivation
  users,     \* collection users: fcmTokens, following, followers
  follows,   \* collection follows: the ids follower_followee
  posts,     \* collection posts: owner, likes, commentCount
  comments,  \* collection comments, in commit order
  notifications, \* collection notifications, in commit order
  pushes,    \* the push gateway: sendToDevice calls received per token
  rejected,  \* the push gateway: tokens it has failed as invalid
  detached,  \* push attempts still in flight after their dispatch has thrown
  pager      \* a client that follows the cursor of list-messages

social ==
  <<users, follows, posts, comments, notifications, pushes, rejected,
    detached>>

vars == <<chats, messages, reqs, resp, clock, derive, social, pager>>

\* chats.js 119-133: the document a creation writes
NewChat(chatId, participants, uid, otherUserId, now) ==
  [ exists |-> TRUE,
    chatId |-> chatId,
    participants |-> participants,
    createdAt |-> now,
    lastMessageAt |-> now,
    lastMessage |-> [text |-> "", senderId |-> <<>>, type |-> "text"],
    unreadCount |-> SetKey(SetKey(<<>>, uid, 0), otherUserId, 0) ]

\* chats.js 233-237: the last-message snapshot of a send
LastMessageOfEmpty(uid, p) ==
  [text |-> "", senderId |-> uid, type |-> p.type]
LastMessageOf(uid, p) ==
  [ text |-> IF p.type = "text" THEN p.text ELSE "Sent an image",
    senderId |-> uid,
    type |-> p.type ]

\* chats.js 209-218: the message document of a send
MessageData(chatId, uid, p, now) ==
  [ chatId |-> chatId, senderId |-> uid, text |-> p.text,
    mediaUrl |-> p.mediaUrl, type |-> p.type, read |-> FALSE,
    createdAt |-> now ]

\* the locals of a handler that go on to be used: of the chat document
\* read, its participants and unread counters
ChatData(doc) ==
  [exists |-> TRUE, participants |-> doc.participants,
   unreadCount |-> doc.unreadCount]

\* part_004 337-339: the lists of a new user document; fcmTokens is absent
\* until a device registers
NewUser == [fcmTokens |-> {}, following |-> <<>>, followers |-> <<>>]

\* the post documents of the store
PostIds == {"p1"}

\* part_003 84-96: the document a post creation writes
NewPost(uid) ==
  [exists |-> TRUE, userId |-> uid, likes |-> <<>>, commentCount |-> 0]

\* a client that has not started to page
NoPager ==
  [on |-> FALSE, uid |-> <<>>, chatId |-> <<>>, limit |-> 0, lastId |-> NoId,
   got |-> <<>>, base |-> {}, done |-> FALSE]

\* a request without an Authorization header (req.headers.authorization is
\* undefined)
NoHeader == [scheme |-> "none", token |-> <<>>]

\* a free request slot
Idle ==
  [ pc |-> "idle", op |-> "none", uid |-> <<>>, chatId |-> <<>>,
    payload |-> [text |-> "", mediaUrl |-> "", type |-> "text"],
    limit |-> 0, lastId |-> NoId, chatData |-> NoDoc, now |-> 0,
    snap |-> <<>>, flip |-> {},
    target |-> <<>>, postId |-> "", owner |-> <<>>, text |-> "",
    followers |-> <<>>, following |-> <<>>, likes |-> <<>>, commentCount |-> 0,
    nto |-> <<>>, ntype |-> "none", nid |-> 0,
    tokens |-> {}, pending |-> {}, invalid |-> {}, pruning |-> {},
    dispatch |-> "none", ids |-> {}, listed |-> FALSE, cred |-> NoHeader ]

\* res.status(status).json(...) of request rec; lastId and hasMore are
\* those of a page, absent from every other response
Respond(rec, status) ==
  [op |-> rec.op, chatId |-> rec.chatId, status |-> status,
   uid |-> rec.uid, dispatch |-> rec.dispatch,
   lastId |-> NoId, hasMore |-> FALSE, target |-> rec.target]

NoResp ==
  [op |-> "none", chatId |-> <<>>, status |-> 0, uid |-> <<>>,
   dispatch |-> "none", lastId |-> NoId, hasMore |-> FALSE, target |-> <<>>]

\* chats.js 350, notifications.js 114: the id of the last document of the
\* page, null for an empty page
LastIdOf(docs) == IF Len(docs) > 0 THEN docs[Len(docs)] ELSE NoId

\* chats.js 351, notifications.js 115: docs.length >= parseInt(limit)
HasMoreNever(docs, limit) == FALSE
HasMore(docs, limit) == Len(docs) >= limit

\* chats.js 346-353, notifications.js 112-116: the envelope of a page
RespondPage(rec, status, docs) ==
  [Respond(rec, status) EXCEPT !.lastId = LastIdOf(docs),
                               !.hasMore = HasMore(docs, rec.limit)]

InFlight(r) == reqs[r].pc # "idle"
Quiet == \A r \in Reqs : ~InFlight(r)

\* a request takes the first free slot; where the route is mounted behind
\* validateFirebaseToken its handler starts when the middleware calls next()
CanStart(r) ==
  \/ /\ reqs[r].pc = "idle"
     /\ \A q \in Reqs : q < r => reqs[q].pc # "idle"
  \/ reqs[r].pc = "next"

\* new Date(): the time of the last reading or a later time
Dates == {t \in {clock, clock + 1} : t <= MaxClock}

\* new Date() when every reading is later than the one before
LaterDates == {t \in {clock + 1} : t <= MaxClock}

\* lastId of a list request: none, or the id of a stored message
Cursors == {NoId} \cup (1..Len(messages))

\* lastId as any string the query of a request may carry: those, the id of
\* no message, and a string that is not a document id
AnyCursors == Cursors \cup {MissingId, BadId}

\* the chat collection with the chat uid has created with otherUserId
OneChat(uid, otherUserId) ==
  [c \in AllChatIds |->
     IF c = DeriveChatId(uid, otherUserId)
     THEN NewChat(c, SortPair(uid, otherUserId), uid, otherUserId, 0)
     ELSE NoDoc]

\* the collections but chats, users and posts are empty, no request is in
\* flight
InitEmpty ==
  /\ messages = <<>>
  /\ reqs = [r \in Reqs |-> Idle]
  /\ resp = NoResp
  /\ clock = 0
  /\ derive = [x |-> <<>>, y |-> <<>>, xy |-> <<>>, yx |-> <<>>, done |-> FALSE]
  /\ follows = {}
  /\ comments = <<>>
  /\ notifications = <<>>
  /\ pushes = [t \in Tokens |-> 0]
  /\ rejected = {}
  /\ detached = {}
  /\ pager = NoPager

\* the chat ua has created with ub and the chat uc has created with ua
TwoChats ==
  [c \in AllChatIds |->
     IF c = DeriveChatId(ua, ub) THEN OneChat(ua, ub)[c]
     ELSE OneChat(uc, ua)[c]]

\* no chat, or the chat of ua and ub
InitCore ==
  /\ chats \in {[c \in AllChatIds |-> NoDoc], OneChat(ua, ub)}
  /\ InitEmpty

\* users ua and ub have signed up; no device has registered, no post
Init ==
  /\ InitCore
  /\ users = [u \in UserIds |-> NewUser]
  /\ posts = [p \in PostIds |-> NoDoc]

\* request r answers: its slot is free again
Reply(r, rec, status) ==
  /\ reqs' = [reqs EXCEPT ![r] = Idle]
  /\ resp' = Respond(rec, status)

\* request r answers with a page
ReplyPage(r, rec, status, docs) ==
  /\ reqs' = [reqs EXCEPT ![r] = Idle]
  /\ resp' = RespondPage(rec, status, docs)

\* request r goes on with locals rec
Goto(r, rec) ==
  /\ reqs' = [reqs EXCEPT ![r] = rec]
  /\ resp' = resp

(* ------------------------------------------------------------------ *)
(* POST /create, chats.js 69-166                                       *)
(* ------------------------------------------------------------------ *)
\* 91: if (chatDoc.exists)
ChatFoundNever(chatDoc) == FALSE
ChatFound(chatDoc) == chatDoc.exists

\* 81: if (!otherUserDoc.exists)
UserMissing(us, otherUserId) == otherUserId \notin DOMAIN us

\* 71-133, 158-164: user lookup, chat id, chat lookup; an existing chat is
\* returned, a missing one is prepared; of an otherUserId that is not a
\* document id doc() throws (500)
CreateStart(r, pairs, dates) ==
  /\ CanStart(r)
  /\ \E p \in pairs :
       LET uid == p[1]
           otherUserId == p[2]
           participants == SortPair(uid, otherUserId)
           chatId == JoinPair(participants)
           rec == [Idle EXCEPT !.op = "create", !.uid = uid, !.chatId = chatId,
                               !.target = otherUserId]
       IN IF ~IsDocPath(otherUserId)
          THEN Reply(r, rec, 500) /\ clock' = clock
          ELSE IF UserMissing(users, otherUserId)
          THEN Reply(r, rec, 404) /\ clock' = clock
          ELSE IF ChatFound(chats[chatId])
          THEN Reply(r, rec, 200) /\ clock' = clock
          ELSE \E t \in dates :
                 /\ Goto(r, [rec EXCEPT !.pc = "set", !.now = t,
                              !.chatData = NewChat(chatId, participants,
                                                   uid, otherUserId, t)])
                 /\ clock' = t
  /\ UNCHANGED <<chats, messages, derive, social, pager>>

\* 71-133 for ua and ub
CreateGet(r, dates) == CreateStart(r, CreatePairs, dates)

\* 135-157: the write of the new chat and the 201 response
CreateSet(r) ==
  /\ reqs[r].op = "create" /\ reqs[r].pc = "set"
  /\ chats' = [chats EXCEPT ![reqs[r].chatId] = reqs[r].chatData]
  /\ Reply(r, reqs[r], 201)
  /\ UNCHANGED <<messages, clock, derive, social, pager>>

(* ------------------------------------------------------------------ *)
(* POST /:chatId/send, chats.js 173-279                                *)
(* ------------------------------------------------------------------ *)
\* 198: chatData.participants.includes(uid)
IsParticipantAlways(chatData, uid) == TRUE
IsParticipant(chatData, uid) ==
  uid \in {chatData.participants[1], chatData.participants[2]}

\* 180-186: the input validation
SendInvalid(p) ==
  \/ p.type = "text" /\ IsBlank(p.text)
  \/ p.type = "image" /\ p.mediaUrl = ""

\* text bodies that pass the validation
ValidTexts == {p \in TextPayloads : ~SendInvalid(p)}

\* the sends in flight
Sending == {q \in Reqs : reqs[q].op = "send"}

\* 175-218: validation, chat lookup, participant check, message document;
\* requests are taken while the messages stored and in flight are fewer
\* than max
SendStart(r, chatIds, payloads, dates, max) ==
  /\ CanStart(r)
  /\ Len(messages) + Cardinality(Sending) < max
  /\ \E uid \in Callers, chatId \in chatIds, p \in payloads :
       LET rec == [Idle EXCEPT !.op = "send", !.uid = uid, !.chatId = chatId,
                               !.payload = p]
           chatDoc == chats[chatId]
       IN IF SendInvalid(p)
          THEN Reply(r, rec, 400) /\ clock' = clock
          ELSE IF ~chatDoc.exists
          THEN Reply(r, rec, 404) /\ clock' = clock
          ELSE IF ~IsParticipant(chatDoc, uid)
          THEN Reply(r, rec, 403) /\ clock' = clock
          ELSE \E t \in dates :
                 /\ Goto(r, [rec EXCEPT !.pc = "tx", !.now = t,
                                        !.chatData = ChatData(chatDoc)])
                 /\ clock' = t
  /\ UNCHANGED <<chats, messages, derive, social, pager>>

\* 175-218 for the chats requests address and up to MaxMsgs messages
SendGet(r, payloads, dates) ==
  SendStart(r, ChatIds, payloads, dates, MaxMsgs)

\* 229-230: the unread counters the transaction writes
SendUnreadCount(chatData, uid) ==
  LET otherParticipantId == OtherParticipant(chatData.participants, uid)
  IN SetKey(chatData.unreadCount, otherParticipantId,
            GetOr0(chatData.unreadCount, otherParticipantId) + 1)

\* 221-241, 265-271: the transaction commits, 201 with the message
SendCommitMessageOnly(r) ==
  /\ reqs[r].op = "send" /\ reqs[r].pc = "tx"
  /\ messages' = Append(messages, MessageData(reqs[r].chatId, reqs[r].uid,
                                              reqs[r].payload, reqs[r].now))
  /\ Reply(r, reqs[r], 201)
  /\ UNCHANGED <<chats, clock, derive, social, pager>>
SendCommit(r) ==
  /\ reqs[r].op = "send" /\ reqs[r].pc = "tx"
  /\ LET q == reqs[r]
     IN /\ messages' = Append(messages,
                              MessageData(q.chatId, q.uid, q.payload, q.now))
        /\ chats' = [chats EXCEPT ![q.chatId] =
                       [@ EXCEPT !.lastMessage = LastMessageOf(q.uid, q.payload),
                                 !.lastMessageAt = q.now,
                                 !.unreadCount = SendUnreadCount(q.chatData, q.uid)]]
        /\ Reply(r, q, 201)
  /\ UNCHANGED <<clock, derive, social, pager>>

\* 221-241, 243-258: the transaction commits and the handler goes on to
\* notify the other participant
SendCommitDispatch(r) ==
  /\ reqs[r].op = "send" /\ reqs[r].pc = "tx"
  /\ LET q == reqs[r]
     IN /\ messages' = Append(messages,
                              MessageData(q.chatId, q.uid, q.payload, q.now))
        /\ chats' = [chats EXCEPT ![q.chatId] =
                       [@ EXCEPT !.lastMessage = LastMessageOf(q.uid, q.payload),
                                 !.lastMessageAt = q.now,
                                 !.unreadCount = SendUnreadCount(q.chatData, q.uid)]]
        /\ Goto(r, [q EXCEPT !.pc = "sender", !.ntype = "message",
                             !.nto = OtherParticipant(q.chatData.participants,
                                                      q.uid)])
  /\ UNCHANGED <<clock, derive, social, pager>>

\* 246-253, 260-271: the sender's user document is read for its name; of a
\* missing document senderData is undefined and reading its name throws,
\* which the catch of 260 swallows: 201 without a dispatch
SendSenderGet(r) ==
  /\ reqs[r].op = "send" /\ reqs[r].pc = "sender"
  /\ IF reqs[r].uid \in DOMAIN users
     THEN Goto(r, [reqs[r] EXCEPT !.pc = "nset"])
     ELSE Reply(r, reqs[r], 201)
  /\ UNCHANGED <<chats, messages, clock, derive, social, pager>>

\* 246, 260-271: the read of the sender's document fails, 201
SendSenderGetFails(r) ==
  /\ reqs[r].op = "send" /\ reqs[r].pc = "sender"
  /\ Reply(r, reqs[r], 201)
  /\ UNCHANGED <<chats, messages, clock, derive, social, pager>>

\* 221, 272-278: the transaction fails, nothing is written, 500
SendAbort(r) ==
  /\ reqs[r].op = "send" /\ reqs[r].pc = "tx"
  /\ Reply(r, reqs[r], 500)
  /\ UNCHANGED <<chats, messages, clock, derive, social, pager>>

(* ------------------------------------------------------------------ *)
(* GET /:chatId/messages, chats.js 286-361                             *)
(* ------------------------------------------------------------------ *)
\* orderBy('createdAt', 'desc'): message i comes before message j; equal
\* times fall back on the document id
Before(msgs, i, j) ==
  \/ msgs[i].createdAt > msgs[j].createdAt
  \/ msgs[i].createdAt = msgs[j].createdAt /\ i > j

RECURSIVE OrderDesc(_, _)
\* the ids of S in the order of the query
OrderDesc(msgs, S) ==
  IF S = {} THEN <<>>
  ELSE LET m == CHOOSE i \in S : \A j \in S \ {i} : Before(msgs, i, j)
       IN <<m>> \o OrderDesc(msgs, S \ {m})

\* the first n elements of a sequence
Take(seq, n) == SubSeq(seq, 1, IF Len(seq) < n THEN Len(seq) ELSE n)

\* 306-319: where(chatId).orderBy(createdAt desc).limit(n), after the
\* document lastId when it exists
QueryPageStartAt(msgs, chatId, n, lastId) ==
  LET inChat == {i \in 1..Len(msgs) : msgs[i].chatId = chatId}
      from == IF lastId \in 1..Len(msgs)
              THEN {i \in inChat : i = lastId \/ Before(msgs, lastId, i)}
              ELSE inChat
  IN Take(OrderDesc(msgs, from), n)
QueryPage(msgs, chatId, n, lastId) ==
  LET inChat == {i \in 1..Len(msgs) : msgs[i].chatId = chatId}
      after == IF lastId \in 1..Len(msgs)
               THEN {i \in inChat : Before(msgs, lastId, i)}
               ELSE inChat
  IN Take(OrderDesc(msgs, after), n)

\* 326-332: the messages of the page the batch flips to read
PageFlipsAll(msgs, page, uid) ==
  {page[k] : k \in {k \in 1..Len(page) : ~msgs[page[k]].read}}
PageFlips(msgs, page, uid) ==
  {page[k] : k \in {k \in 1..Len(page) :
                       msgs[page[k]].senderId # uid /\ ~msgs[page[k]].read}}

\* 288-304: chat lookup and participant check
ListStart(r, chatIds, cursors) ==
  /\ CanStart(r)
  /\ \E uid \in Callers, chatId \in chatIds, n \in Limits,
        lastId \in cursors :
       LET rec == [Idle EXCEPT !.op = "list", !.uid = uid, !.chatId = chatId,
                               !.limit = n, !.lastId = lastId]
           chatDoc == chats[chatId]
       IN IF ~chatDoc.exists
          THEN Reply(r, rec, 404)
          ELSE IF ~IsParticipant(chatDoc, uid)
          THEN Reply(r, rec, 403)
          ELSE Goto(r, [rec EXCEPT !.pc = "query",
                                   !.chatData = ChatData(chatDoc)])
  /\ UNCHANGED <<chats, messages, clock, derive, social, pager>>

\* 288-304 for the chats requests address
ListGet(r, cursors) == ListStart(r, ChatIds, cursors)

\* request q is the next request of the paging client pg
PagerAsked(pg, q) ==
  /\ pg.on /\ ~pg.done
  /\ q.uid = pg.uid /\ q.chatId = pg.chatId
  /\ q.limit = pg.limit /\ q.lastId = pg.lastId

\* 306-319 seen from a client that asks for its first page: what the chat
\* holds when the query runs
PagerAsks(pg, q, msgs) ==
  IF PagerAsked(pg, q) /\ pg.got = <<>> /\ pg.lastId = NoId
  THEN [pg EXCEPT !.base = {i \in 1..Len(msgs) : msgs[i].chatId = q.chatId}]
  ELSE pg

\* 306-332, 354-359: cursor lookup, the page query and the choice of what to
\* flip; of a lastId that is not a document id doc() throws (500)
ListQuery(r) ==
  /\ reqs[r].op = "list" /\ reqs[r].pc = "query"
  /\ LET q == reqs[r]
         page == QueryPage(messages, q.chatId, q.limit, q.lastId)
     IN IF q.lastId # NoId /\ ~IsDocId(q.lastId)
        THEN Reply(r, q, 500) /\ pager' = pager
        ELSE /\ Goto(r, [q EXCEPT !.pc = "commit", !.snap = page,
                                  !.flip = PageFlips(messages, page, q.uid)])
             /\ pager' = PagerAsks(pager, q, messages)
  /\ UNCHANGED <<chats, messages, clock, derive, social>>

\* 335-337: the unread counters the batch writes
ListUnreadCountReset(chatData, uid, unreadCount) ==
  SetKey(chatData.unreadCount, uid, 0)
ListUnreadCount(chatData, uid, unreadCount) ==
  SetKey(chatData.unreadCount, uid,
         Max0(GetOr0(chatData.unreadCount, uid) - unreadCount))

\* batch.update(doc.ref, { read: true }) for the documents of S
FlipRead(msgs, S) ==
  [i \in 1..Len(msgs) |-> IF i \in S THEN [msgs[i] EXCEPT !.read = TRUE]
                                     ELSE msgs[i]]

\* 346-353 seen from a client that asked for the page after its cursor: it
\* keeps the messages, takes lastId as its next cursor and stops when hasMore
\* is false
PagerSees(pg, q) ==
  IF PagerAsked(pg, q)
  THEN [pg EXCEPT !.got = @ \o q.snap,
                  !.lastId = LastIdOf(q.snap),
                  !.done = ~HasMore(q.snap, q.limit)]
  ELSE pg

\* a client starts to page through a chat it takes part in: its first
\* request, not yet made, carries no cursor
PagerStart ==
  /\ ~pager.on
  /\ \A r \in Reqs : reqs[r].op # "list"
  /\ \E uid \in UserIds, chatId \in ChatIds, n \in Limits :
       /\ chats[chatId].exists
       /\ IsParticipant(chats[chatId], uid)
       /\ pager' = [NoPager EXCEPT !.on = TRUE, !.uid = uid,
                                   !.chatId = chatId, !.limit = n]
  /\ UNCHANGED <<chats, messages, reqs, resp, clock, derive, social>>

\* 334-353: the batch commits, 200 with the page
ListCommit(r) ==
  /\ reqs[r].op = "list" /\ reqs[r].pc = "commit"
  /\ LET q == reqs[r]
         unreadCount == Cardinality(q.flip)
     IN /\ messages' = FlipRead(messages, q.flip)
        /\ chats' = IF unreadCount > 0
                    THEN [chats EXCEPT ![q.chatId].unreadCount =
                            ListUnreadCount(q.chatData, q.uid, unreadCount)]
                    ELSE chats
        /\ ReplyPage(r, q, 200, q.snap)
        /\ pager' = PagerSees(pager, q)
  /\ UNCHANGED <<clock, derive, social>>

(* ------------------------------------------------------------------ *)
(* POST /:chatId/read, chats.js 368-424                                *)
(* ------------------------------------------------------------------ *)
\* 370-385: chat lookup and participant check
ReadGet(r) ==
  /\ CanStart(r)
  /\ \E uid \in Callers, chatId \in ChatIds :
       LET rec == [Idle EXCEPT !.op = "read", !.uid = uid, !.chatId = chatId]
           chatDoc == chats[chatId]
       IN IF ~chatDoc.exists
          THEN Reply(r, rec, 404)
          ELSE IF ~IsParticipant(chatDoc, uid)
          THEN Reply(r, rec, 403)
          ELSE Goto(r, [rec EXCEPT !.pc = "query",
                                   !.chatData = ChatData(chatDoc)])
  /\ UNCHANGED <<chats, messages, clock, derive, social, pager>>

\* 388-392: the unread messages of the chat the caller did not send
UnreadOfAnySender(msgs, chatId, uid) ==
  {i \in 1..Len(msgs) : msgs[i].chatId = chatId /\ ~msgs[i].read}
UnreadOf(msgs, chatId, uid) ==
  {i \in 1..Len(msgs) : /\ msgs[i].chatId = chatId
                        /\ msgs[i].senderId # uid
                        /\ ~msgs[i].read}

\* 387-394, 413-416: the query; with nothing unread the handler answers 200
\* without writing
ReadQueryRejectsEmpty(r) ==
  /\ reqs[r].op = "read" /\ reqs[r].pc = "query"
  /\ LET q == reqs[r]
         unread == UnreadOf(messages, q.chatId, q.uid)
     IN IF unread = {} THEN Reply(r, q, 400)
        ELSE Goto(r, [q EXCEPT !.pc = "commit", !.flip = unread])
  /\ UNCHANGED <<chats, messages, clock, derive, social, pager>>
ReadQuery(r) ==
  /\ reqs[r].op = "read" /\ reqs[r].pc = "query"
  /\ LET q == reqs[r]
         unread == UnreadOf(messages, q.chatId, q.uid)
     IN IF unread = {} THEN Reply(r, q, 200)
        ELSE Goto(r, [q EXCEPT !.pc = "commit", !.flip = unread])
  /\ UNCHANGED <<chats, messages, clock, derive, social, pager>>

\* 403-404: the unread counters the batch writes
ReadUnreadCount(chatData, uid) == SetKey(chatData.unreadCount, uid, 0)

\* 396-416: the batch commits, 200
ReadCommit(r) ==
  /\ reqs[r].op = "read" /\ reqs[r].pc = "commit"
  /\ LET q == reqs[r]
     IN /\ messages' = FlipRead(messages, q.flip)
        /\ chats' = [chats EXCEPT ![q.chatId].unreadCount =
                       ReadUnreadCount(q.chatData, q.uid)]
        /\ Reply(r, q, 200)
  /\ UNCHANGED <<clock, derive, social, pager>>

(* ------------------------------------------------------------------ *)
(* POST /follow/:userId, chats.js 546-615                              *)
(* ------------------------------------------------------------------ *)
\* the follow, like and comment requests in flight
Notifying == {q \in Reqs : reqs[q].op \in {"follow", "like", "comment"}}

\* a request that may notify is taken while the notifications it and the
\* requests in flight may add fit the bound
CanNotify == Len(notifications) + Cardinality(Notifying) < MaxNotifs

\* array.includes(x)
Includes(array, x) == \E k \in 1..Len(array) : array[k] = x

\* 548-560: self-follow check and the read of the target user
FollowGet(r, callers) ==
  /\ CanStart(r)
  /\ CanNotify
  /\ \E uid \in callers, userId \in Callers :
       LET rec == [Idle EXCEPT !.op = "follow", !.uid = uid, !.target = userId]
       IN IF uid = userId
          THEN Reply(r, rec, 400)
          ELSE IF userId \notin DOMAIN users
          THEN Reply(r, rec, 404)
          ELSE Goto(r, [rec EXCEPT !.pc = "current",
                                   !.followers = users[userId].followers])
  /\ UNCHANGED <<chats, messages, clock, derive, social, pager>>

\* 563-569: the read of the caller's user document; of a missing document
\* currentUserData is undefined and reading its following list throws (500)
FollowCurrent(r) ==
  /\ reqs[r].op = "follow" /\ reqs[r].pc = "current"
  /\ LET q == reqs[r]
     IN IF q.uid \notin DOMAIN users
        THEN Reply(r, q, 500)
        ELSE IF Includes(users[q.uid].following, q.target)
        THEN Reply(r, q, 400)
        ELSE Goto(r, [q EXCEPT !.pc = "tx",
                               !.following = users[q.uid].following])
  /\ UNCHANGED <<chats, messages, clock, derive, social, pager>>

\* 572-590: the transaction writes both lists from what was read and the
\* follow record; the handler goes on to notify the target
FollowCommit(r) ==
  /\ reqs[r].op = "follow" /\ reqs[r].pc = "tx"
  /\ LET q == reqs[r]
     IN /\ users' = [users EXCEPT
                       ![q.uid].following = Append(q.following, q.target),
                       ![q.target].followers = Append(q.followers, q.uid)]
        /\ follows' = follows \cup {<<q.uid, q.target>>}
        /\ Goto(r, [q EXCEPT !.pc = "nset", !.nto = q.target,
                             !.ntype = "follow"])
  /\ UNCHANGED <<chats, messages, clock, derive, posts, comments,
                 notifications, pushes, rejected, detached, pager>>

\* 572, 608-614: the transaction fails, 500
FollowAbort(r) ==
  /\ reqs[r].op = "follow" /\ reqs[r].pc = "tx"
  /\ Reply(r, reqs[r], 500)
  /\ UNCHANGED <<chats, messages, clock, derive, social, pager>>

(* ------------------------------------------------------------------ *)
(* POST /unfollow/:userId, chats.js 622-670                            *)
(* ------------------------------------------------------------------ *)
\* array.filter(id => id !== x)
Filter(array, x) == SelectSeq(array, LAMBDA id : id # x)

\* 624-631: the read of the target user
UnfollowGet(r, callers) ==
  /\ CanStart(r)
  /\ \E uid \in callers, userId \in Callers :
       LET rec == [Idle EXCEPT !.op = "unfollow", !.uid = uid,
                               !.target = userId]
       IN IF userId \notin DOMAIN users
          THEN Reply(r, rec, 404)
          ELSE Goto(r, [rec EXCEPT !.pc = "current",
                                   !.followers = users[userId].followers])
  /\ UNCHANGED <<chats, messages, clock, derive, social, pager>>

\* 634-640: the read of the caller's user document; of a missing document
\* currentUserData is undefined and reading its following list throws (500)
UnfollowCurrent(r) ==
  /\ reqs[r].op = "unfollow" /\ reqs[r].pc = "current"
  /\ LET q == reqs[r]
     IN IF q.uid \notin DOMAIN users
        THEN Reply(r, q, 500)
        ELSE IF ~Includes(users[q.uid].following, q.target)
        THEN Reply(r, q, 400)
        ELSE Goto(r, [q EXCEPT !.pc = "tx",
                               !.following = users[q.uid].following])
  /\ UNCHANGED <<chats, messages, clock, derive, social, pager>>

\* 643-662: the transaction writes both lists, filtered from what was read,
\* and deletes the follow record (200)
UnfollowCommit(r) ==
  /\ reqs[r].op = "unfollow" /\ reqs[r].pc = "tx"
  /\ LET q == reqs[r]
     IN /\ users' = [users EXCEPT
                       ![q.uid].following = Filter(q.following, q.target),
                       ![q.target].followers = Filter(q.followers, q.uid)]
        /\ follows' = follows \ {<<q.uid, q.target>>}
        /\ Reply(r, q, 200)
  /\ UNCHANGED <<chats, messages, clock, derive, posts, comments,
                 notifications, pushes, rejected, detached, pager>>

\* 643, 663-669: the transaction fails, 500
UnfollowAbort(r) ==
  /\ reqs[r].op = "unfollow" /\ reqs[r].pc = "tx"
  /\ Reply(r, reqs[r], 500)
  /\ UNCHANGED <<chats, messages, clock, derive, social, pager>>

(* ------------------------------------------------------------------ *)
(* POST /:postId/like, part_003 172-225                                *)
(* ------------------------------------------------------------------ *)
\* 174-189: the read of the post and the already-liked check
LikeGet(r, callers) ==
  /\ CanStart(r)
  /\ CanNotify
  /\ \E uid \in callers, postId \in PostIds :
       LET rec == [Idle EXCEPT !.op = "like", !.uid = uid, !.postId = postId]
           postDoc == posts[postId]
       IN IF ~postDoc.exists
          THEN Reply(r, rec, 404)
          ELSE IF Includes(postDoc.likes, uid)
          THEN Reply(r, rec, 400)
          ELSE Goto(r, [rec EXCEPT !.pc = "update", !.likes = postDoc.likes,
                                   !.owner = postDoc.userId])
  /\ UNCHANGED <<chats, messages, clock, derive, social, pager>>

\* 192-197, 214-217: the likes read, with the caller added, are written; a
\* like of one's own post answers 200 here
LikeUpdate(r) ==
  /\ reqs[r].op = "like" /\ reqs[r].pc = "update"
  /\ LET q == reqs[r]
     IN /\ posts' = [posts EXCEPT ![q.postId].likes = Append(q.likes, q.uid)]
        /\ IF q.owner # q.uid
           THEN Goto(r, [q EXCEPT !.pc = "liker", !.nto = q.owner,
                                  !.ntype = "like"])
           ELSE Reply(r, q, 200)
  /\ UNCHANGED <<chats, messages, clock, derive, users, follows, comments,
                 notifications, pushes, rejected, detached, pager>>

\* 192, 218-224: the write fails, 500
LikeUpdateFails(r) ==
  /\ reqs[r].op = "like" /\ reqs[r].pc = "update"
  /\ Reply(r, reqs[r], 500)
  /\ UNCHANGED <<chats, messages, clock, derive, social, pager>>

\* 199-206: the caller's user document is read for its name; of a missing
\* document userData is undefined and reading its name throws (500)
LikeUserGet(r) ==
  /\ reqs[r].op = "like" /\ reqs[r].pc = "liker"
  /\ IF reqs[r].uid \in DOMAIN users
     THEN Goto(r, [reqs[r] EXCEPT !.pc = "nset"])
     ELSE Reply(r, reqs[r], 500)
  /\ UNCHANGED <<chats, messages, clock, derive, social, pager>>

(* ------------------------------------------------------------------ *)
(* POST /:postId/comment, part_003 274-350                             *)
(* ------------------------------------------------------------------ *)
\* the comment texts requests carry
CommentTexts == {"ok", " "}

\* the comment requests in flight
Commenting == {q \in Reqs : reqs[q].op = "comment"}

\* 276-290: validation and the read of the post
CommentGet(r, callers, texts) ==
  /\ CanStart(r)
  /\ CanNotify
  /\ Len(comments) + Cardinality(Commenting) < MaxComments
  /\ \E uid \in callers, postId \in PostIds, text \in texts :
       LET rec == [Idle EXCEPT !.op = "comment", !.uid = uid,
                               !.postId = postId, !.text = text]
           postDoc == posts[postId]
       IN IF IsBlank(text)
          THEN Reply(r, rec, 400)
          ELSE IF ~postDoc.exists
          THEN Reply(r, rec, 404)
          ELSE Goto(r, [rec EXCEPT !.pc = "cuser", !.owner = postDoc.userId,
                                   !.commentCount = postDoc.commentCount])
  /\ UNCHANGED <<chats, messages, clock, derive, social, pager>>

\* 293-296: the read of the caller's user document
CommentUserGet(r) ==
  /\ reqs[r].op = "comment" /\ reqs[r].pc = "cuser"
  /\ IF reqs[r].uid \in DOMAIN users
     THEN Goto(r, [reqs[r] EXCEPT !.pc = "tx"])
     ELSE Reply(r, reqs[r], 404)
  /\ UNCHANGED <<chats, messages, clock, derive, social, pager>>

\* 302-319: the comment document and the comment count, one more than the
\* count read, are written in one transaction; a comment on one's own post
\* answers 201 here
CommentCommit(r) ==
  /\ reqs[r].op = "comment" /\ reqs[r].pc = "tx"
  /\ LET q == reqs[r]
     IN /\ comments' = Append(comments, [postId |-> q.postId, userId |-> q.uid,
                                         text |-> q.text])
        /\ posts' = [posts EXCEPT ![q.postId].commentCount = q.commentCount + 1]
        /\ IF q.owner # q.uid
           THEN Goto(r, [q EXCEPT !.pc = "nset", !.nto = q.owner,
                                  !.ntype = "comment"])
           ELSE Reply(r, q, 201)
  /\ UNCHANGED <<chats, messages, clock, derive, users, follows,
                 notifications, pushes, rejected, detached, pager>>

\* 314, 343-349: the transaction fails, 500
CommentAbort(r) ==
  /\ reqs[r].op = "comment" /\ reqs[r].pc = "tx"
  /\ Reply(r, reqs[r], 500)
  /\ UNCHANGED <<chats, messages, clock, derive, social, pager>>

(* ------------------------------------------------------------------ *)
(* sendNotification, src/utils/notifications.js 14-85                  *)
(* ------------------------------------------------------------------ *)
\* how the caller answers once the dispatcher has returned or thrown: send
\* catches what it throws (chats.js 260-263); follow, like and comment let
\* it reach the catch of their handler (chats.js 608, part_003 218, 343)
StatusAfterDispatchUncaught(op, how) ==
  IF how = "threw" THEN 500
  ELSE IF op \in {"send", "comment"} THEN 201 ELSE 200
StatusAfterDispatch(op, how) ==
  IF op = "send" THEN 201
  ELSE IF how = "threw" THEN 500
  ELSE IF op = "comment" THEN 201 ELSE 200

\* the dispatcher of request r returns or throws (81-84 rethrows) and the
\* caller answers
DispatchEnds(r, q, how) ==
  Reply(r, [q EXCEPT !.dispatch = how], StatusAfterDispatch(q.op, how))

\* the attempts of a dispatch that are still in flight
InFlightOf(q) ==
  {[userId |-> q.nto, token |-> t, phase |-> "push"] : t \in q.pending}
    \cup {[userId |-> q.nto, token |-> t, phase |-> "prune"] : t \in q.pruning}

\* 20-30: the notification record
NotificationDataToActor(q, now) ==
  [userId |-> q.uid, type |-> q.ntype, actorId |-> q.uid, read |-> FALSE,
   createdAt |-> now]
NotificationData(q, now) ==
  [userId |-> q.nto, type |-> q.ntype, actorId |-> q.uid, read |-> FALSE,
   createdAt |-> now]

\* 17-32: the record is written
NotifySetSkipped(r, dates) ==
  /\ reqs[r].pc = "nset"
  /\ Goto(r, [reqs[r] EXCEPT !.pc = "nuser"])
  /\ UNCHANGED <<chats, messages, clock, derive, social, pager>>
NotifySet(r, dates) ==
  /\ reqs[r].pc = "nset"
  /\ \E t \in dates :
       /\ notifications' = Append(notifications, NotificationData(reqs[r], t))
       /\ clock' = t
  /\ Goto(r, [reqs[r] EXCEPT !.pc = "nuser", !.nid = Len(notifications) + 1])
  /\ UNCHANGED <<chats, messages, derive, users, follows, posts, comments,
                 pushes, rejected, detached, pager>>

\* 32, 81-84: the write of the record fails
NotifySetFails(r) ==
  /\ reqs[r].pc = "nset"
  /\ DispatchEnds(r, reqs[r], "threw")
  /\ UNCHANGED <<chats, messages, clock, derive, social, pager>>

\* 37-48: what follows the lookup of the recipient
AfterLookupThrows(exists, fcmTokens) ==
  IF ~exists THEN "threw" ELSE IF fcmTokens = {} THEN "threw" ELSE "push"
AfterLookup(exists, fcmTokens) ==
  IF ~exists THEN "returned" ELSE IF fcmTokens = {} THEN "returned" ELSE "push"

\* 65-66: the tokens sendToDevice is called for
PushTargetsFirst(fcmTokens) == {CHOOSE t \in fcmTokens : TRUE}
PushTargets(fcmTokens) == fcmTokens

\* 35-80: the recipient is read; without a document or without tokens the
\* dispatcher returns, else sendToDevice is called for every token
NotifyUserGet(r) ==
  /\ reqs[r].pc = "nuser"
  /\ LET q == reqs[r]
         exists == q.nto \in DOMAIN users
         fcmTokens == IF exists THEN users[q.nto].fcmTokens ELSE {}
         after == AfterLookup(exists, fcmTokens)
     IN IF after = "push"
        THEN /\ pushes' = [t \in Tokens |->
                             IF t \in PushTargets(fcmTokens)
                             THEN pushes[t] + 1 ELSE pushes[t]]
             /\ Goto(r, [q EXCEPT !.pc = "push", !.tokens = fcmTokens,
                                  !.pending = PushTargets(fcmTokens)])
        ELSE /\ pushes' = pushes
             /\ DispatchEnds(r, q, after)
  /\ UNCHANGED <<chats, messages, clock, derive, users, follows, posts,
                 comments, notifications, rejected, detached, pager>>

\* 35, 81-84: the read of the recipient fails
NotifyUserGetFails(r) ==
  /\ reqs[r].pc = "nuser"
  /\ DispatchEnds(r, reqs[r], "threw")
  /\ UNCHANGED <<chats, messages, clock, derive, social, pager>>

\* 80: Promise.all resolves when every attempt has settled
AfterSettle(r, q) ==
  IF q.pending = {} /\ q.pruning = {}
  THEN DispatchEnds(r, q, "returned")
  ELSE Goto(r, q)

\* 66-78: the attempt for a token succeeds, or fails with an error other than
\* an invalid token, which the catch of 67 logs
PushDelivered(r) ==
  /\ reqs[r].pc = "push"
  /\ \E t \in reqs[r].pending :
       AfterSettle(r, [reqs[r] EXCEPT !.pending = @ \ {t}])
  /\ UNCHANGED <<chats, messages, clock, derive, social, pager>>

\* 71-76, 80-84: the attempt fails with an invalid token and the build's
\* Firestore instance has no FieldValue: db.FieldValue.arrayRemove throws,
\* the attempt rejects and with it Promise.all; no token is removed
PushInvalidThrows(r) ==
  /\ reqs[r].pc = "push"
  /\ \E t \in reqs[r].pending :
       LET q == [reqs[r] EXCEPT !.pending = @ \ {t}, !.invalid = @ \cup {t}]
       IN /\ DispatchEnds(r, q, "threw")
          /\ detached' = detached \cup InFlightOf(q)
          /\ rejected' = rejected \cup {t}
  /\ UNCHANGED <<chats, messages, clock, derive, users, follows, posts,
                 comments, notifications, pushes, pager>>

\* 71-76: the attempt fails with an invalid token and the build's Firestore
\* instance has FieldValue: the removal of the token is sent to the store
PushInvalidUpdate(r) ==
  /\ reqs[r].pc = "push"
  /\ \E t \in reqs[r].pending :
       /\ Goto(r, [reqs[r] EXCEPT !.pending = @ \ {t}, !.invalid = @ \cup {t},
                                  !.pruning = @ \cup {t}])
       /\ rejected' = rejected \cup {t}
  /\ UNCHANGED <<chats, messages, clock, derive, users, follows, posts,
                 comments, notifications, pushes, detached, pager>>

\* 73-75: arrayRemove(token) on the recipient's document
ArrayRemove(us, userId, token) ==
  [us EXCEPT ![userId].fcmTokens = @ \ {token}]

\* 73-75: the removal of a token commits
PruneCommit(r) ==
  /\ reqs[r].pc = "push"
  /\ \E t \in reqs[r].pruning :
       /\ users' = ArrayRemove(users, reqs[r].nto, t)
       /\ AfterSettle(r, [reqs[r] EXCEPT !.pruning = @ \ {t}])
  /\ UNCHANGED <<chats, messages, clock, derive, follows, posts, comments,
                 notifications, pushes, rejected, detached, pager>>

\* 73-75, 80-84: the removal of a token fails and with it Promise.all
PruneFails(r) ==
  /\ reqs[r].pc = "push"
  /\ \E t \in reqs[r].pruning :
       LET q == [reqs[r] EXCEPT !.pruning = @ \ {t}]
       IN /\ DispatchEnds(r, q, "threw")
          /\ detached' = detached \cup InFlightOf(q)
  /\ UNCHANGED <<chats, messages, clock, derive, users, follows, posts,
                 comments, notifications, pushes, rejected, pager>>

\* 66-78 after the dispatcher has thrown: an attempt still in flight settles;
\* for an invalid token the removal is sent to the store or, without
\* FieldValue, throws unheard
DetachedPush ==
  /\ \E d \in detached :
       /\ d.phase = "push"
       /\ \/ detached' = detached \ {d} /\ rejected' = rejected
          \/ detached' = detached \ {d} /\ rejected' = rejected \cup {d.token}
          \/ /\ detached' = (detached \ {d}) \cup {[d EXCEPT !.phase = "prune"]}
             /\ rejected' = rejected \cup {d.token}
  /\ UNCHANGED <<chats, messages, reqs, resp, clock, derive, users, follows,
                 posts, comments, notifications, pushes, pager>>

\* 73-75 after the dispatcher has thrown: a removal still in flight commits
\* or fails
DetachedPrune ==
  /\ \E d \in detached :
       /\ d.phase = "prune"
       /\ detached' = detached \ {d}
       /\ \/ users' = ArrayRemove(users, d.userId, d.token)
          \/ users' = users
  /\ UNCHANGED <<chats, messages, reqs, resp, clock, derive, follows, posts,
                 comments, notifications, pushes, rejected, pager>>

(* ------------------------------------------------------------------ *)
(* getUserNotifications, src/utils/notifications.js 94-121             *)
(* ------------------------------------------------------------------ *)
\* lastId of a call: none, the id of a stored notification, the id of no
\* notification, or a string that is not a document id
NotificationCursors == {NoId, MissingId, BadId} \cup (1..Len(notifications))

\* 96-109: where(userId).orderBy(createdAt desc).limit(n), after the
\* document lastId when it exists
NotificationPageOfAll(ns, userId, n, lastId) ==
  LET after == IF lastId \in 1..Len(ns)
               THEN {i \in 1..Len(ns) : Before(ns, lastId, i)}
               ELSE 1..Len(ns)
  IN Take(OrderDesc(ns, after), n)
NotificationPage(ns, userId, n, lastId) ==
  LET mine == {i \in 1..Len(ns) : ns[i].userId = userId}
      after == IF lastId \in 1..Len(ns)
               THEN {i \in mine : Before(ns, lastId, i)}
               ELSE mine
  IN Take(OrderDesc(ns, after), n)

\* 94-99: the call
NListGet(r, cursors) ==
  /\ CanStart(r)
  /\ \E userId \in Callers, n \in Limits, lastId \in cursors :
       Goto(r, [Idle EXCEPT !.op = "nlist", !.pc = "query", !.uid = userId,
                            !.limit = n, !.lastId = lastId])
  /\ UNCHANGED <<chats, messages, clock, derive, social, pager>>

\* 101-109, 117-120: the lookup of the cursor and the query; of a lastId
\* that is not a document id doc() throws, which 119 rethrows (500)
NListQuery(r) ==
  /\ reqs[r].op = "nlist" /\ reqs[r].pc = "query"
  /\ LET q == reqs[r]
     IN IF q.lastId # NoId /\ ~IsDocId(q.lastId)
        THEN Reply(r, q, 500)
        ELSE Goto(r, [q EXCEPT !.pc = "return",
                               !.snap = NotificationPage(notifications, q.uid,
                                                         q.limit, q.lastId)])
  /\ UNCHANGED <<chats, messages, clock, derive, social, pager>>

\* 110-116: the page, its lastId and hasMore are returned (200)
NListReturn(r) ==
  /\ reqs[r].op = "nlist" /\ reqs[r].pc = "return"
  /\ ReplyPage(r, reqs[r], 200, reqs[r].snap)
  /\ UNCHANGED <<chats, messages, clock, derive, social, pager>>

(* ------------------------------------------------------------------ *)
(* markNotificationsAsRead, src/utils/notifications.js 129-160         *)
(* ------------------------------------------------------------------ *)
\* notificationIds of a call, as a set: ids of stored notifications, the id
\* of no notification, a string that is not a document id
NotificationIdSets ==
  SUBSET ((1..Len(notifications)) \cup {MissingId, BadId})

\* the second argument of a call: left out, or a list of ids
NoList == [given |-> FALSE, ids |-> {}]
List(S) == [given |-> TRUE, ids |-> S]

\* 129: notificationIds = [], the default of an argument left out
IdsOrDefault(arg) == IF arg.given THEN arg.ids ELSE {}

\* 133-153: the notifications batch.update is called for
MarkTargetsListedOnly(ns, userId, ids) ==
  {i \in 1..Len(ns) : i \in ids /\ ns[i].userId = userId}
MarkTargets(ns, userId, ids) ==
  IF ids # {}
  THEN {i \in 1..Len(ns) : i \in ids /\ ns[i].userId = userId}
  ELSE {i \in 1..Len(ns) : ns[i].userId = userId /\ ~ns[i].read}

\* 129-153, 156-159: the call, the reads of the listed notifications or the
\* query of the unread ones; of a listed id that is not a document id doc()
\* throws before anything is written, which 158 rethrows (500)
NMarkCall(r, args) ==
  /\ CanStart(r)
  /\ \E userId \in Callers, arg \in args :
       LET ids == IdsOrDefault(arg)
           rec == [Idle EXCEPT !.op = "nmark", !.uid = userId, !.ids = ids,
                               !.listed = arg.given]
       IN IF \E i \in ids : ~IsDocId(i)
          THEN Reply(r, rec, 500)
          ELSE Goto(r, [rec EXCEPT !.pc = "commit",
                          !.flip = MarkTargets(notifications, userId, ids)])
  /\ UNCHANGED <<chats, messages, clock, derive, social, pager>>

\* the call with a list of idSets
NMarkGet(r, idSets) == NMarkCall(r, {List(S) : S \in idSets})

\* 155: the batch commits and the call returns (200)
NMarkCommit(r) ==
  /\ reqs[r].op = "nmark" /\ reqs[r].pc = "commit"
  /\ notifications' = FlipRead(notifications, reqs[r].flip)
  /\ Reply(r, reqs[r], 200)
  /\ UNCHANGED <<chats, messages, clock, derive, users, follows, posts,
                 comments, pushes, rejected, detached, pager>>

(* ------------------------------------------------------------------ *)
(* Chat identity derivation on its own                                 *)
(* ------------------------------------------------------------------ *)
\* the user ids of SpecDerive: strings of 1..MaxIdLen characters
Ids == UNION {[1..n -> Alphabet] : n \in 1..MaxIdLen}

\* 86-87 for caller x with other user y, and for caller y with other user x
Derive ==
  /\ ~derive.done
  /\ derive' = [derive EXCEPT !.xy = DeriveChatId(derive.x, derive.y),
                              !.yx = DeriveChatId(derive.y, derive.x),
                              !.done = TRUE]
  /\ UNCHANGED <<chats, messages, reqs, resp, clock, social, pager>>

(* ------------------------------------------------------------------ *)
(* Specifications                                                      *)
(* ------------------------------------------------------------------ *)
\* requests arrive and proceed in any interleaving; text messages, first
\* pages, every clock reading later than the one before
Next ==
  \E r \in Reqs :
    \/ CreateGet(r, LaterDates) \/ CreateSet(r)
    \/ SendGet(r, TextPayloads, LaterDates) \/ SendCommit(r) \/ SendAbort(r)
    \/ ListGet(r, {NoId}) \/ ListQuery(r) \/ ListCommit(r)
    \/ ReadGet(r) \/ ReadQuery(r) \/ ReadCommit(r)

Spec == Init /\ [][Next]_vars

\* one request after another: a request arrives only when none is in flight
NextSeq ==
  \E r \in Reqs :
    \/ Quiet /\ CreateGet(r, LaterDates)
    \/ CreateSet(r)
    \/ Quiet /\ SendGet(r, Payloads, LaterDates)
    \/ SendCommit(r) \/ SendAbort(r)
    \/ Quiet /\ ListGet(r, Cursors)
    \/ ListQuery(r) \/ ListCommit(r)
    \/ Quiet /\ ReadGet(r)
    \/ ReadQuery(r) \/ ReadCommit(r)

SpecSeq == Init /\ [][NextSeq]_vars

\* the chat of ua and ub exists and has seen no message
InitChat == Init /\ chats[DeriveChatId(ua, ub)].exists

\* send-message requests only, in any interleaving
NextSend ==
  \E r \in Reqs : SendGet(r, Payloads, Dates) \/ SendCommit(r) \/ SendAbort(r)

SpecSend == InitChat /\ [][NextSend]_vars

\* no mark-chat-read in flight
NoRead == \A r \in Reqs : reqs[r].op # "read"

\* as Next, but a mark-chat-read request overlaps no other request
NextSolo ==
  \E r \in Reqs :
    \/ NoRead /\ CreateGet(r, LaterDates)
    \/ CreateSet(r)
    \/ NoRead /\ SendGet(r, TextPayloads, LaterDates)
    \/ SendCommit(r) \/ SendAbort(r)
    \/ NoRead /\ ListGet(r, {NoId})
    \/ ListQuery(r) \/ ListCommit(r)
    \/ Quiet /\ ReadGet(r)
    \/ ReadQuery(r) \/ ReadCommit(r)

SpecSolo == Init /\ [][NextSolo]_vars

\* any two user ids, then the derivation
InitDerive ==
  /\ chats = [c \in AllChatIds |-> NoDoc]
  /\ messages = <<>>
  /\ reqs = [r \in Reqs |-> Idle]
  /\ resp = NoResp
  /\ clock = 0
  /\ derive \in [x : Ids, y : Ids, xy : {<<>>}, yx : {<<>>}, done : {FALSE}]
  /\ users = [u \in UserIds |-> NewUser]
  /\ posts = [p \in PostIds |-> NoDoc]
  /\ follows = {} /\ comments = <<>> /\ notifications = <<>>
  /\ pushes = [t \in Tokens |-> 0] /\ rejected = {} /\ detached = {}
  /\ pager = NoPager

SpecDerive == InitDerive /\ [][Derive]_vars

\* sends only, of bodies of every kind
NextKinds ==
  \E r \in Reqs :
    \/ SendGet(r, AnyKindPayloads, Dates)
    \/ SendCommit(r)
    \/ SendAbort(r)

SpecKinds == InitChat /\ [][NextKinds]_vars

\* one request at a time: sends of valid text, equal times included, and the
\* list requests of a client that follows the cursor
NextPage ==
  \/ PagerStart
  \/ \E r \in Reqs :
       \/ Quiet /\ SendStart(r, ChatIds, ValidTexts, Dates, MaxPageMsgs)
       \/ SendCommit(r)
       \/ SendAbort(r)
       \/ Quiet /\ ListGet(r, {pager.lastId}) /\ PagerAsked(pager, reqs'[r])
       \/ ListQuery(r)
       \/ ListCommit(r)

SpecPage == InitChat /\ [][NextPage]_vars

\* the token sets devices have registered: ua has no device, ub has any
\* number of them
TokenRegistrations == {f \in [UserIds -> SUBSET Tokens] : f[ua] = {}}

\* no chat; a user has created the post and devices have registered
InitSocial ==
  /\ InitCore
  /\ \A c \in ChatIds : ~chats[c].exists
  /\ \E f \in TokenRegistrations, uid \in UserIds :
       /\ users = [u \in UserIds |-> [NewUser EXCEPT !.fcmTokens = f[u]]]
       /\ posts = [p \in PostIds |-> NewPost(uid)]

\* follow, like and comment requests of ua and ub, one at a time, each
\* notifying the user it concerns
NextSocial ==
  \/ \E r \in Reqs :
       \/ Quiet /\ FollowGet(r, UserIds)
       \/ FollowCurrent(r) \/ FollowCommit(r) \/ FollowAbort(r)
       \/ Quiet /\ LikeGet(r, UserIds)
       \/ LikeUpdate(r) \/ LikeUpdateFails(r) \/ LikeUserGet(r)
       \/ Quiet /\ CommentGet(r, UserIds, {"ok"})
       \/ CommentUserGet(r) \/ CommentCommit(r) \/ CommentAbort(r)
       \/ NotifySet(r, {clock}) \/ NotifySetFails(r)
       \/ NotifyUserGet(r) \/ NotifyUserGetFails(r)
       \/ PushDelivered(r) \/ PushInvalidThrows(r) \/ PushInvalidUpdate(r)
       \/ PruneCommit(r) \/ PruneFails(r)
  \/ DetachedPush \/ DetachedPrune

SpecSocial == InitSocial /\ [][NextSocial]_vars

\* one chat exists, of ua and ub or the one uc created with ua, and devices
\* have registered
InitNotify ==
  /\ InitEmpty
  /\ chats \in {OneChat(ua, ub), OneChat(uc, ua)}
  /\ posts = [p \in PostIds |-> NoDoc]
  /\ \E f \in TokenRegistrations :
       users = [u \in UserIds |-> [NewUser EXCEPT !.fcmTokens = f[u]]]

\* one request at a time: sends of valid text that notify the other
\* participant
NextNotify ==
  \/ \E r \in Reqs :
       \/ Quiet /\ SendStart(r, AllChatIds, ValidTexts, LaterDates, MaxMsgs)
       \/ SendCommitDispatch(r)
       \/ SendAbort(r)
       \/ SendSenderGet(r) \/ SendSenderGetFails(r)
       \/ NotifySet(r, Dates) \/ NotifySetFails(r)
       \/ NotifyUserGet(r) \/ NotifyUserGetFails(r)
       \/ PushDelivered(r) \/ PushInvalidThrows(r) \/ PushInvalidUpdate(r)
       \/ PruneCommit(r) \/ PruneFails(r)
  \/ DetachedPush \/ DetachedPrune

SpecNotify == InitNotify /\ [][NextNotify]_vars

\* one request at a time, by participants and by uc: sends of valid text
\* that notify the other participant, who has no device, first pages and
\* mark-read
NextOutsider ==
  \E r \in Reqs :
    \/ Quiet /\ SendGet(r, ValidTexts, LaterDates)
    \/ SendCommitDispatch(r)
    \/ SendAbort(r)
    \/ SendSenderGet(r) \/ SendSenderGetFails(r)
    \/ NotifySet(r, Dates) \/ NotifySetFails(r)
    \/ NotifyUserGet(r) \/ NotifyUserGetFails(r)
    \/ Quiet /\ ListGet(r, {NoId})
    \/ ListQuery(r) \/ ListCommit(r)
    \/ Quiet /\ ReadGet(r)
    \/ ReadQuery(r) \/ ReadCommit(r)

SpecOutsider == InitChat /\ [][NextOutsider]_vars

\* one request or call at a time: sends of valid text that notify the other
\* participant, who has no device, list-messages and list-notifications with
\* every cursor
NextInbox ==
  \E r \in Reqs :
    \/ Quiet /\ SendGet(r, ValidTexts, LaterDates)
    \/ SendCommitDispatch(r)
    \/ SendAbort(r)
    \/ SendSenderGet(r)
    \/ NotifySet(r, {clock})
    \/ NotifyUserGet(r)
    \/ Quiet /\ ListGet(r, AnyCursors)
    \/ ListQuery(r)
    \/ ListCommit(r)
    \/ Quiet /\ NListGet(r, NotificationCursors)
    \/ NListQuery(r)
    \/ NListReturn(r)

SpecInbox == InitChat /\ [][NextInbox]_vars

\* one request or call at a time: sends of valid text that notify the other
\* participant, who has no device, and mark-notifications-read with every
\* id list
NextMark ==
  \E r \in Reqs :
    \/ Quiet /\ SendGet(r, ValidTexts, LaterDates)
    \/ SendCommitDispatch(r)
    \/ SendAbort(r)
    \/ SendSenderGet(r)
    \/ NotifySet(r, Dates)
    \/ NotifyUserGet(r)
    \/ Quiet /\ NMarkGet(r, NotificationIdSets)
    \/ NMarkCommit(r)

SpecMark == InitChat /\ [][NextMark]_vars

\* both chats exist and have seen no message
InitTwoChats ==
  /\ InitEmpty
  /\ chats = TwoChats
  /\ users = [u \in UserIds |-> NewUser]
  /\ posts = [p \in PostIds |-> NoDoc]

\* one request at a time: sends of valid text into either chat, equal times
\* included, and list-messages on either chat with every cursor
NextCursor ==
  \E r \in Reqs :
    \/ Quiet /\ SendStart(r, AllChatIds, ValidTexts, Dates, MaxMsgs)
    \/ SendCommit(r)
    \/ SendAbort(r)
    \/ Quiet /\ ListStart(r, AllChatIds, AnyCursors)
    \/ ListQuery(r)
    \/ ListCommit(r)

SpecCursor == InitTwoChats /\ [][NextCursor]_vars

\* ua, ub and uc have signed up; nobody follows anybody, no device has
\* registered
InitFollow ==
  /\ InitEmpty
  /\ chats = [c \in AllChatIds |-> NoDoc]
  /\ users = [u \in Callers |-> NewUser]
  /\ posts = [p \in PostIds |-> NoDoc]

\* follow and unfollow requests of the three users in any interleaving, each
\* follow notifying its target
NextFollow ==
  \E r \in Reqs :
    \/ FollowGet(r, Callers)
    \/ FollowCurrent(r)
    \/ FollowCommit(r)
    \/ FollowAbort(r)
    \/ NotifySet(r, {clock})
    \/ NotifyUserGet(r)
    \/ UnfollowGet(r, Callers)
    \/ UnfollowCurrent(r)
    \/ UnfollowCommit(r)
    \/ UnfollowAbort(r)

SpecFollow == InitFollow /\ [][NextFollow]_vars

\* get-or-create requests of ua, ub and uc in any interleaving, equal times
\* included
NextCreate ==
  \E r \in Reqs : CreateStart(r, AnyCreatePairs, Dates) \/ CreateSet(r)

SpecCreate == Init /\ [][NextCreate]_vars

(* ------------------------------------------------------------------ *)
(* Properties                                                          *)
(* ------------------------------------------------------------------ *)
\* the chats that exist and have two distinct participants
TwoPartyChats ==
  {c \in ChatIds : chats[c].exists
                   /\ chats[c].participants[1] # chats[c].participants[2]}

Members(c) == {chats[c].participants[1], chats[c].participants[2]}

\* the messages of chat c sent by somebody other than p
SentToIn(msgs, c, p) ==
  {i \in 1..Len(msgs) : msgs[i].chatId = c /\ msgs[i].senderId # p}

\* those of them still unread
UnreadToIn(msgs, c, p) == {i \in SentToIn(msgs, c, p) : msgs[i].read = FALSE}

\* every unread counter is the number of unread messages sent to its owner
CountersMatchUnread ==
  \A c \in TwoPartyChats : \A p \in Members(c) :
    /\ p \in DOMAIN chats[c].unreadCount
    /\ chats[c].unreadCount[p] = Cardinality(UnreadToIn(messages, c, p))

\* C1: overlapping send-message requests lose no increment: once all sends
\* have committed, each participant's unread counter equals the number of
\* messages the other participant sent (SpecSend: sends only, from zero).
C1_NoIncrementLost ==
  Quiet =>
    \A c \in TwoPartyChats : \A p \in Members(c) :
      chats[c].unreadCount[p] = Cardinality(SentToIn(messages, c, p))

\* C2: after any sequence of non-overlapping send, list and mark-read
\* operations, unreadCount[p] is the number of unread messages sent to p by
\* the other participant (SpecSeq).
C2_SequentialCountersMatch == Quiet => CountersMatchUnread

\* C2 witness: a list request has flipped one of two unread messages and the
\* counter went from 2 to 1
C2_Witness ==
  /\ Quiet /\ resp.op = "list" /\ resp.status = 200
  /\ \E c \in TwoPartyChats : \E p \in Members(c) :
       /\ chats[c].unreadCount[p] = 1
       /\ Cardinality(SentToIn(messages, c, p)) = 2

\* C3: in every interleaving of send, list and mark-read requests, once all
\* requests have completed, unreadCount[p] is the number of unread messages
\* sent to p (Spec).
C3_InterleavedCountersMatch ==
  (\A r \in Reqs : reqs[r].pc = "idle") => CountersMatchUnread

\* the last-message snapshot the chat shows for message m
SnapshotOf(m) ==
  [ text |-> IF m.type = "text" THEN m.text ELSE "Sent an image",
    senderId |-> m.senderId, type |-> m.type ]

\* a step that adds a message also sets the snapshot, the time and the
\* counter of that send, in the same step
C4_MessageWithUpdate ==
  messages' # messages =>
    /\ Len(messages') = Len(messages) + 1
    /\ SubSeq(messages', 1, Len(messages)) = messages
    /\ LET m == messages'[Len(messages')]
           c == m.chatId
           o == OtherParticipant(chats[c].participants, m.senderId)
       IN /\ chats'[c].lastMessage = SnapshotOf(m)
          /\ chats'[c].lastMessageAt = m.createdAt
          /\ \E r \in Reqs :
               /\ reqs[r].pc = "tx" /\ reqs'[r].pc = "idle"
               /\ reqs[r].uid = m.senderId
               /\ chats'[c].unreadCount[o] = reqs[r].chatData.unreadCount[o] + 1

\* a step that changes the chat adds a message
C4_UpdateWithMessage == chats' # chats => Len(messages') = Len(messages) + 1

\* a send that answers 500 has written nothing
C4_FailureWritesNothing ==
  \A r \in Reqs :
    (reqs[r].op = "send" /\ reqs'[r].pc = "idle" /\ resp'.status = 500)
      => (chats' = chats /\ messages' = messages)

\* C4: the message, the last-message snapshot and time, and the +1 of a send
\* appear in one step, never one without the others, and a failed
\* transaction applies none of them (SpecSend).
C4_SendAtomic ==
  [][C4_MessageWithUpdate /\ C4_UpdateWithMessage /\ C4_FailureWritesNothing]_vars

\* C4 witness: one send committed, then another one failed and left the
\* store as it was
C4_Witness ==
  /\ resp.op = "send" /\ resp.status = 500
  /\ Len(messages) = 1
  /\ \E c \in TwoPartyChats : chats[c].lastMessage = SnapshotOf(messages[1])

\* C5: creation writes the chat record at most once: a get-or-create that
\* lost the race never writes over an existing chat (Spec).
C5_CreateNeverOverwrites ==
  [][\A r \in Reqs :
       (reqs[r].op = "create" /\ reqs[r].pc = "set" /\ reqs'[r].pc = "idle")
         => ~chats[reqs[r].chatId].exists]_vars

\* a step of a get-or-create request
CreateStep ==
  \/ \E r \in Reqs : reqs[r].op = "create" \/ reqs'[r].op = "create"
  \/ resp'.op = "create" /\ resp' # resp

\* C6: get-or-create called one call after another is idempotent: every call
\* for the pair answers the chat id a_b, and a call that finds the chat
\* leaves counters, snapshot and time as they were (SpecSeq).
C6_CreateIdempotent ==
  /\ [](resp.op = "create" /\ resp.status \in {200, 201}
          => resp.chatId = <<"a", "_", "b">>)
  /\ [][CreateStep =>
          /\ messages' = messages
          /\ \A c \in ChatIds : chats[c].exists => chats'[c] = chats[c]]_vars

\* C6 witness: a get-or-create answered "already exists" for a chat with a
\* message and a non-zero counter
C6_Witness ==
  /\ resp.op = "create" /\ resp.status = 200
  /\ Len(messages) >= 1
  /\ \E c \in TwoPartyChats : \E p \in Members(c) : chats[c].unreadCount[p] > 0

\* C7: the derived chat id is the same whichever of the two users is the
\* caller (SpecDerive).
C7_DeriveSymmetric == derive.done => derive.xy = derive.yx

\* C7 witness: the derivation ran for two different ids given in descending
\* order
C7_Witness ==
  /\ derive.done /\ derive.x # derive.y /\ StrLess(derive.y, derive.x)
  /\ derive.xy = derive.y \o <<"_">> \o derive.x

\* C8: when a mark-chat-read that overlapped no other request completes, the
\* caller's counter is 0 and every message the caller did not send is read,
\* whatever state earlier overlapping requests left behind (SpecSolo).
C8_MarkReadResets ==
  [][\A r \in Reqs :
       (reqs[r].op = "read" /\ reqs'[r].pc = "idle")
         => LET c == reqs[r].chatId
                u == reqs[r].uid
            IN /\ chats'[c].unreadCount[u] = 0
               /\ \A i \in SentToIn(messages', c, u) : messages'[i].read]_vars

\* C9: a counter rises only by 1 and only in the commit of a send by the
\* other participant, and falls only in the commit of its owner's own
\* list-messages or mark-chat-read (Spec).
C9_CounterSteps ==
  [][\A c \in ChatIds : (chats[c].exists /\ chats'[c].exists) =>
       \A p \in Members(c) :
         LET old == chats[c].unreadCount[p]
             new == chats'[c].unreadCount[p]
         IN /\ new > old =>
                 /\ new = old + 1
                 /\ Len(messages') = Len(messages) + 1
                 /\ messages'[Len(messages')].chatId = c
                 /\ messages'[Len(messages')].senderId # p
            /\ new < old =>
                 \E r \in Reqs :
                   /\ reqs[r].op \in {"list", "read"}
                   /\ reqs[r].pc = "commit" /\ reqs'[r].pc = "idle"
                   /\ reqs[r].uid = p /\ reqs[r].chatId = c]_vars

\* the messages of chat c
InChat(c) == {i \in 1..Len(messages) : messages[i].chatId = c}

Flipped == {i \in 1..Len(messages) : ~messages[i].read /\ messages'[i].read}

\* the ids on a page
OnPage(page) == {page[k] : k \in 1..Len(page)}

\* C11: a list-messages call by participant p that runs without overlap flips
\* to read exactly the messages of the returned page that were unread and not
\* sent by p, leaves every other message as it was, and lowers
\* chat.unreadCount[p] by the number of messages flipped, never below zero
\* (SpecSeq).
C11_ListFlipsExactly ==
  [][\A r \in Reqs :
       (reqs[r].op = "list" /\ reqs[r].pc = "commit" /\ reqs'[r].pc = "idle")
         => LET q == reqs[r]
                c == q.chatId
            IN /\ resp'.status = 200
               /\ Flipped = {i \in OnPage(q.snap) :
                               ~messages[i].read /\ messages[i].senderId # q.uid}
               /\ Len(messages') = Len(messages)
               /\ \A i \in 1..Len(messages) :
                    messages'[i] = IF i \in Flipped
                                   THEN [messages[i] EXCEPT !.read = TRUE]
                                   ELSE messages[i]
               /\ chats'[c].unreadCount[q.uid] =
                    Max0(chats[c].unreadCount[q.uid] - Cardinality(Flipped))
               /\ \A p \in DOMAIN chats[c].unreadCount \ {q.uid} :
                    chats'[c].unreadCount[p] = chats[c].unreadCount[p]]_vars

\* C11 witness: a page of one message was listed by its receiver while an
\* older message stayed unread
C11_Witness ==
  /\ Quiet /\ resp.op = "list" /\ resp.status = 200
  /\ \E i, j \in 1..Len(messages) :
       /\ messages[i].read /\ ~messages[j].read
       /\ messages[i].senderId = messages[j].senderId
       /\ messages[i].chatId = messages[j].chatId

\* the requests on a chat
ChatOps == {"send", "list", "read"}

\* a request on a chat by somebody who is not one of its participants is
\* never past the participant check
C12_OutsiderNeverInFlight ==
  \A r \in Reqs :
    (InFlight(r) /\ reqs[r].op \in ChatOps /\ chats[reqs[r].chatId].exists)
      => reqs[r].uid \in Members(reqs[r].chatId)

\* a response to such a request is 403, given in a step that leaves every
\* collection as it was
C12_OutsiderAnswer ==
  (/\ resp' # resp
   /\ resp'.op \in ChatOps
   /\ chats[resp'.chatId].exists
   /\ resp'.uid \notin Members(resp'.chatId))
    => /\ resp'.status = 403
       /\ UNCHANGED <<chats, messages, social>>

C13_StoredHasContent ==
  \A i \in 1..Len(messages) :
    ~IsBlank(messages[i].text) \/ messages[i].mediaUrl # ""

\* where a request is between its primary mutation and its response
DispatchPcs == {"sender", "nset", "nuser", "push"}

\* C14: whatever fails in the notification dispatch of a send after its
\* transaction has committed (the write of the record, the lookup of the
\* sender or of the recipient, a push, the pruning of a token), the send
\* answers 201 and the message, the counter increment and the last-message
\* snapshot stay committed (SpecNotify).
C14_SendSurvivesDispatch ==
  [][\A r \in Reqs :
       (reqs[r].op = "send" /\ reqs[r].pc \in DispatchPcs
          /\ reqs'[r].pc = "idle")
         => LET q == reqs[r]
            IN /\ resp'.op = "send" /\ resp'.uid = q.uid
               /\ resp'.status = 201
               /\ chats' = chats /\ messages' = messages
               /\ \E i \in 1..Len(messages) :
                    messages[i] = MessageData(q.chatId, q.uid, q.payload,
                                              q.now)]_vars

\* C14 witness: the dispatcher threw after the message was stored, and the
\* send answered 201
C14_Witness ==
  /\ resp.op = "send" /\ resp.dispatch = "threw" /\ resp.status = 201
  /\ Len(messages) >= 1
  /\ chats[resp.chatId].lastMessage.senderId = resp.uid

\* C15: for follow, like-post and comment, a failure of the dispatcher (the
\* write of the notification record, the lookup of the recipient, the write
\* that prunes a token) does not fail the operation: once its primary
\* mutation has committed it reports success (SpecSocial).
C15_DispatchNeverFailsCaller ==
  [][\A r \in Reqs :
       (reqs[r].op \in {"follow", "like", "comment"}
          /\ reqs[r].pc \in {"nset", "nuser", "push"}
          /\ reqs'[r].pc = "idle")
         => resp'.status \in {200, 201}]_vars

\* the notification record of the dispatch request r is in
RecordOf(r) ==
  [userId |-> reqs[r].nto, type |-> reqs[r].ntype, actorId |-> reqs[r].uid]

\* a dispatch that is at the lookup of the recipient or at the pushes has
\* its record stored
C16_RecordStored ==
  \A r \in Reqs :
    reqs[r].pc \in {"nuser", "push"}
      => /\ reqs[r].nid \in 1..Len(notifications)
         /\ LET n == notifications[reqs[r].nid]
            IN /\ [userId |-> n.userId, type |-> n.type, actorId |-> n.actorId]
                    = RecordOf(r)
               /\ ~n.read

\* stored records stay as they are
C16_RecordKept ==
  /\ Len(notifications') >= Len(notifications)
  /\ SubSeq(notifications', 1, Len(notifications)) = notifications

\* C16: in every dispatch the notification record is written before the
\* recipient lookup and before any push attempt, and nothing that follows
\* removes or alters it: it stays stored when the recipient does not exist,
\* has no tokens, or every push fails (SpecNotify).
C16_RecordFirstAndKept ==
  []C16_RecordStored /\ [][C16_RecordKept]_vars

\* C16 witness: the only push of a dispatch failed, the dispatcher threw, and
\* the record is stored
C16_Witness ==
  /\ Quiet /\ resp.op = "send" /\ resp.dispatch = "threw"
  /\ Len(notifications) = 1 /\ notifications[1].userId = ub
  /\ pushes["t1"] = 1 /\ rejected = {"t1"}

\* C17: when the recipient does not exist or has no tokens, the dispatch
\* returns without throwing, makes no push attempt and modifies no user
\* record (SpecNotify).
C17_NoTokensNoDelivery ==
  [][\A r \in Reqs :
       (/\ NotifyUserGet(r)
        /\ \/ reqs[r].nto \notin UserIds
           \/ users[reqs[r].nto].fcmTokens = {})
         => /\ reqs'[r].pc = "idle"
            /\ resp'.dispatch = "returned"
            /\ resp'.status = 201
            /\ pushes' = pushes /\ users' = users
            /\ detached' = detached]_vars

\* C17 witness: a dispatch to uc, who has no user document, returned
C17_Witness ==
  /\ Quiet /\ resp.op = "send" /\ resp.dispatch = "returned"
  /\ Len(notifications) = 1 /\ notifications[1].userId = uc
  /\ \A t \in Tokens : pushes[t] = 0

\* the tokens of the recipient a dispatch at its lookup will find
TokensAtLookup(r) ==
  IF reqs[r].nto \in UserIds THEN users[reqs[r].nto].fcmTokens ELSE {}

\* C18: in one dispatch every token registered for the recipient at lookup
\* time receives exactly one delivery attempt, whatever the outcome of the
\* other attempts and the order they settle in; no attempt is retried: the
\* lookup step calls the gateway once per token and no other step calls it
\* (SpecNotify).
C18_OneAttemptPerToken ==
  [][/\ \A r \in Reqs :
          NotifyUserGet(r)
            => \A t \in Tokens :
                 pushes'[t] = IF t \in TokensAtLookup(r) THEN pushes[t] + 1
                              ELSE pushes[t]
     /\ pushes' # pushes => \E r \in Reqs : NotifyUserGet(r)]_vars

\* C18 witness: of two tokens one was failed as invalid and the dispatcher
\* threw; both tokens had their one attempt
C18_Witness ==
  /\ Quiet /\ resp.dispatch = "threw"
  /\ Len(notifications) = 1
  /\ pushes["t1"] = 1 /\ pushes["t2"] = 1
  /\ rejected = {"t1"}

\* C19: after a dispatch completes, the recipient's token set is the set
\* the dispatch found minus exactly the tokens whose delivery failed with an
\* invalid-token error; tokens that succeeded or failed otherwise remain
\* (SpecNotify).
C19_PrunesExactlyInvalid ==
  [][\A r \in Reqs :
       (reqs[r].pc = "push" /\ reqs'[r].pc = "idle")
         => users'[reqs[r].nto].fcmTokens = reqs[r].tokens \ rejected']_vars

\* the concatenation of the pages received holds no message twice, only
\* messages of the chat, newest first
C20_PagesInOrder ==
  \A i, j \in 1..Len(pager.got) :
    /\ messages[pager.got[i]].chatId = pager.chatId
    /\ i < j => /\ pager.got[i] # pager.got[j]
                /\ Before(messages, pager.got[i], pager.got[j])

\* once hasMore is false the pages hold every message the chat had at the
\* first request; messages sent since appear on the first page or not at all
C20_PagesComplete ==
  pager.done =>
    /\ pager.base \subseteq OnPage(pager.got)
    /\ \A k \in 1..Len(pager.got) :
         k > pager.limit => pager.got[k] \in pager.base

PageReturned(r) ==
  /\ \/ reqs[r].op = "list" /\ reqs[r].pc = "commit"
     \/ reqs[r].op = "nlist" /\ reqs[r].pc = "return"
  /\ reqs'[r].pc = "idle"

\* C21: in list-messages and list-notifications, hasMore is true exactly when
\* the returned page holds pageSize items and false when it holds fewer, so
\* also for a full last page whose successor is empty; the returned lastId is
\* the id of the last item of the page, or null when the page is empty
\* (SpecInbox).
C21_HasMoreIffFull ==
  [][\A r \in Reqs :
       PageReturned(r)
         => LET page == reqs[r].snap
                pageSize == reqs[r].limit
            IN /\ resp'.status = 200
               /\ Len(page) <= pageSize
               /\ resp'.hasMore = (Len(page) = pageSize)
               /\ Len(page) < pageSize => ~resp'.hasMore
               /\ resp'.lastId = IF page = <<>> THEN NoId
                                 ELSE page[Len(page)]]_vars

\* C21 witness: list-notifications returned a full page with hasMore true
\* although the page after its lastId is empty
C21_Witness ==
  /\ resp.op = "nlist" /\ resp.status = 200
  /\ resp.hasMore /\ resp.lastId \in 1..Len(notifications)
  /\ NotificationPage(notifications, resp.uid, 1, resp.lastId) = <<>>

\* page holds the n most recent of the items S of collection coll, or all of
\* S when they are fewer, newest first
IsFirstPage(coll, S, n, page) ==
  /\ OnPage(page) \subseteq S
  /\ Len(page) = (IF Cardinality(S) < n THEN Cardinality(S) ELSE n)
  /\ \A i, j \in 1..Len(page) : i < j => Before(coll, page[i], page[j])
  /\ \A i \in S \ OnPage(page) : \A k \in 1..Len(page) : Before(coll, page[k], i)

\* C22: a list call (messages or notifications) given no cursor, or a cursor
\* id that matches no stored item, returns the same page as the first page
\* (the most recent items) and does not fail (SpecInbox).
C22_UnknownCursorIsFirstPage ==
  [][\A r \in Reqs :
       LET q == reqs[r]
       IN /\ (/\ q.op = "list" /\ q.pc = "query"
              /\ q.lastId \notin 1..Len(messages)
              /\ reqs'[r] # q)
               => /\ reqs'[r].pc = "commit"
                  /\ IsFirstPage(messages,
                                 {i \in 1..Len(messages) :
                                    messages[i].chatId = q.chatId},
                                 q.limit, reqs'[r].snap)
          /\ (/\ q.op = "nlist" /\ q.pc = "query"
              /\ q.lastId \notin 1..Len(notifications)
              /\ reqs'[r] # q)
               => /\ reqs'[r].pc = "return"
                  /\ IsFirstPage(notifications,
                                 {i \in 1..Len(notifications) :
                                    notifications[i].userId = q.uid},
                                 q.limit, reqs'[r].snap)]_vars

\* C23: every page returned by list-messages(caller, chatId, pageSize,
\* cursor) holds at most pageSize messages, all of chat chatId, in strictly
\* descending creation-time order, for every cursor value a caller can
\* supply, including the id of a message of a different chat (SpecCursor).
C23_PageOfChatStrictlyDescending ==
  [][\A r \in Reqs :
       (reqs[r].op = "list" /\ reqs[r].pc = "commit" /\ reqs'[r].pc = "idle")
         => LET q == reqs[r]
                page == q.snap
            IN /\ Len(page) <= q.limit
               /\ \A k \in 1..Len(page) : messages[page[k]].chatId = q.chatId
               /\ \A i, j \in 1..Len(page) :
                    i < j => messages[page[i]].createdAt
                               > messages[page[j]].createdAt]_vars

\* C24: every item returned by list-notifications(userId, pageSize, cursor)
\* is a notification whose recipient is userId, in descending creation-time
\* order, for every cursor value including the id of another user's
\* notification (SpecInbox).
C24_OwnNotificationsOnly ==
  [][\A r \in Reqs :
       (reqs[r].op = "nlist" /\ reqs[r].pc = "return" /\ reqs'[r].pc = "idle")
         => LET q == reqs[r]
                page == q.snap
            IN /\ resp'.op = "nlist" /\ resp'.status = 200
               /\ \A k \in 1..Len(page) :
                    /\ page[k] \in 1..Len(notifications)
                    /\ notifications[page[k]].userId = q.uid
               /\ \A i, j \in 1..Len(page) :
                    i < j => /\ page[i] # page[j]
                             /\ notifications[page[i]].createdAt
                                  >= notifications[page[j]].createdAt]_vars

\* C24 witness: a call whose cursor is the id of another user's notification
\* has its page, which is not empty
C24_Witness ==
  \E r \in Reqs :
    /\ reqs[r].op = "nlist" /\ reqs[r].pc = "return"
    /\ reqs[r].lastId \in 1..Len(notifications)
    /\ notifications[reqs[r].lastId].userId # reqs[r].uid
    /\ reqs[r].snap # <<>>

\* apart from the read flags of the notifications in S, the collection is as
\* it was
OnlyReadOf(S) ==
  /\ Len(notifications') = Len(notifications)
  /\ \A i \in 1..Len(notifications) :
       notifications'[i] = IF i \in S THEN [notifications[i] EXCEPT !.read = TRUE]
                           ELSE notifications[i]

\* C25: mark-notifications-read(userId, ids) with a non-empty id list sets
\* read = true on exactly the listed notifications that exist and whose
\* recipient is userId, changes no notification of any other user and no
\* unlisted notification, and does not fail when some listed ids are missing
\* or belong to someone else; with no id list it sets read = true on every
\* unread notification of userId and on nothing else (SpecMark).
C25_MarksExactlyOwnListed ==
  [][/\ \A r \in Reqs :
          (reqs[r].op = "nmark" /\ reqs[r].pc = "commit" /\ reqs'[r].pc = "idle")
            => LET q == reqs[r]
                   own == {i \in 1..Len(notifications) :
                             notifications[i].userId = q.uid}
               IN /\ resp'.status = 200
                  /\ OnlyReadOf(IF q.ids # {} THEN own \cap q.ids ELSE own)
     /\ (resp' # resp /\ resp'.op = "nmark") => resp'.status = 200]_vars

\* the three records of the pair (A, B) agree
EdgeMirrored(A, B) ==
  /\ (<<A, B>> \in follows) <=> Includes(users[A].following, B)
  /\ (<<A, B>> \in follows) <=> Includes(users[B].followers, A)

\* C26: after every follow or unfollow request completes, in any
\* interleaving of follow/unfollow requests issued by any users, for all
\* users A and B: the follow edge (A,B) exists iff B is in A's following list
\* iff A is in B's followers list (SpecFollow, checked when no request is in
\* flight).
C26_FollowMirrored ==
  Quiet => \A A \in DOMAIN users, B \in DOMAIN users : EdgeMirrored(A, B)

\* the messages u has sent in chat c
SentBy(u, c) ==
  {i \in 1..Len(messages) : messages[i].senderId = u /\ messages[i].chatId = c}

\* the message notifications that name u as actor and o as recipient
NotifiedBy(u, o) ==
  {k \in 1..Len(notifications) :
     /\ notifications[k].actorId = u /\ notifications[k].userId = o
     /\ notifications[k].type = "message"}

\* every record is a message notification from one participant of a chat to
\* the other one
RecordsAreForReceivers ==
  \A k \in 1..Len(notifications) :
    /\ notifications[k].type = "message"
    /\ notifications[k].userId # notifications[k].actorId
    /\ \E c \in AllChatIds :
         /\ chats[c].exists
         /\ Members(c) = {notifications[k].userId, notifications[k].actorId}

\* C27 as claimed: each successful send-message by a participant whose own
\* user record exists creates exactly one notification record, of type
\* message, addressed to the other participant, and none addressed to the
\* sender: once every send has answered, there are as many records from u to
\* o as messages u has sent in their chat (SpecNotify).
C27_OneRecordPerSend ==
  Quiet =>
    /\ RecordsAreForReceivers
    /\ \A c \in AllChatIds : chats[c].exists =>
         \A u \in Members(c) \cap DOMAIN users :
           Cardinality(NotifiedBy(u, OtherParticipant(chats[c].participants, u)))
             = Cardinality(SentBy(u, c))

\* once every send has answered there are at most as many records from u to
\* o as messages u has sent in their chat
C27_AtMostOneRecordPerSend ==
  Quiet =>
    /\ RecordsAreForReceivers
    /\ \A c \in AllChatIds : chats[c].exists =>
         \A u \in Members(c) :
           Cardinality(NotifiedBy(u, OtherParticipant(chats[c].participants, u)))
             <= Cardinality(SentBy(u, c))

\* a step that adds a record adds one, in the dispatch of a send
C27_RecordBySend ==
  notifications' # notifications =>
    /\ Len(notifications') = Len(notifications) + 1
    /\ \E r \in Reqs :
         /\ reqs[r].op = "send" /\ reqs[r].pc = "nset" /\ reqs'[r].pc = "nuser"
         /\ reqs[r].uid \in DOMAIN users
         /\ LET n == notifications'[Len(notifications')]
            IN /\ n.type = "message" /\ n.actorId = reqs[r].uid
               /\ n.userId = OtherParticipant(chats[reqs[r].chatId].participants,
                                              reqs[r].uid)

\* a send that answers after its sender was read and its record written
\* leaves that one record stored
C27_RecordWhenWritten ==
  \A r \in Reqs :
    (reqs[r].op = "send" /\ reqs[r].pc \in {"nuser", "push"}
       /\ reqs'[r].pc = "idle")
      => /\ resp'.status = 201
         /\ reqs[r].nid \in 1..Len(notifications')
         /\ notifications'[reqs[r].nid].actorId = reqs[r].uid
         /\ notifications'[reqs[r].nid].userId = reqs[r].nto

\* a send that answers without them leaves no record
C27_NoRecordWhenFailed ==
  \A r \in Reqs :
    (reqs[r].op = "send" /\ reqs[r].pc \in {"sender", "nset"}
       /\ reqs'[r].pc = "idle")
      => resp'.status = 201 /\ notifications' = notifications

\* the first message of a chat: one message, the receiver's counter 1 and the
\* sender's 0
C27_FirstMessage ==
  \A r \in Reqs :
    (reqs[r].op = "send" /\ reqs[r].pc = "tx" /\ reqs'[r].pc = "sender"
       /\ messages = <<>>)
      => LET c == reqs[r].chatId
             A == reqs[r].uid
             B == OtherParticipant(chats[c].participants, A)
         IN /\ Len(messages') = 1
            /\ messages'[1].senderId = A /\ messages'[1].chatId = c
            /\ chats'[c].unreadCount[B] = 1
            /\ chats'[c].unreadCount[A] = 0

\* C27 amended: each successful send-message by a participant creates at most
\* one notification record, and exactly one when the read of the sender's
\* user record and the write of the notification record succeed; the record
\* is of type message and addressed to the other participant, never to the
\* sender; for the first message A sends to B in a freshly created chat the
\* result is one message, unreadCount[B] = 1 and unreadCount[A] = 0
\* (SpecNotify).
C27_OneRecordUnlessDispatchFails ==
  /\ []C27_AtMostOneRecordPerSend
  /\ [][/\ C27_RecordBySend
        /\ C27_RecordWhenWritten
        /\ C27_NoRecordWhenFailed
        /\ C27_FirstMessage]_vars

\* C27 witness: ua has sent the first message of the chat to ub, the dispatch
\* returned and ub has its one record
C27_Witness ==
  /\ Quiet /\ resp.op = "send" /\ resp.status = 201
  /\ resp.dispatch = "returned"
  /\ Len(messages) = 1 /\ messages[1].senderId = ua
  /\ Len(notifications) = 1
  /\ notifications[1].userId = ub /\ notifications[1].actorId = ua
  /\ chats[resp.chatId].unreadCount[ub] = 1
  /\ chats[resp.chatId].unreadCount[ua] = 0

\* a get-or-create request answers in this step
CreateAnswers == resp' # resp /\ resp'.op = "create"

\* a request whose otherUserId names no user document answers 404 and writes
\* no chat
C28_NoUserNotFound ==
  (CreateAnswers /\ resp'.target \notin DOMAIN users)
    => resp'.status = 404 /\ chats' = chats

\* the chat a request creates: no unread message for either participant, an
\* empty last-message snapshot
C28_CreatedChatIsEmpty ==
  \A r \in Reqs :
    (reqs[r].op = "create" /\ reqs[r].pc = "set" /\ reqs'[r].pc = "idle")
      => LET c == reqs[r].chatId
         IN /\ resp'.status = 201
            /\ chats'[c].exists
            /\ chats'[c].unreadCount[reqs[r].uid] = 0
            /\ chats'[c].unreadCount[reqs[r].target] = 0
            /\ DOMAIN chats'[c].unreadCount = {reqs[r].uid, reqs[r].target}
            /\ chats'[c].lastMessage.text = ""
            /\ chats'[c].lastMessage.senderId = <<>>

\* a request for an existing user is never refused
C28_UserFound ==
  (CreateAnswers /\ resp'.target \in DOMAIN users) => resp'.status \in {200, 201}

\* C28: get-or-create chat with an otherUserId that references no existing
\* user fails with NotFound and creates no chat record; when the user exists
\* and no chat exists, the created chat has a zero unread count for both
\* participants and an empty last-message snapshot (SpecCreate).
C28_NotFoundOrEmptyChat ==
  [][C28_NoUserNotFound /\ C28_CreatedChatIsEmpty /\ C28_UserFound]_vars

(* ------------------------------------------------------------------ *)
(* validateFirebaseToken, part_002 6-27, in front of the routers of    *)
(* posts, stories, users, chats and uploads (part_003 24-28)           *)
(* ------------------------------------------------------------------ *)
\* an ID token the identity provider has issued to no principal
ForgedToken == <<"x">>

\* an ID token is named by the principal it was issued to
IdTokens == Callers \cup {ForgedToken}

\* the Authorization header of a request: absent, of another scheme, or
\* 'Bearer ' followed by a token
AuthHeaders ==
  {NoHeader} \cup [scheme : {"Basic", "Bearer"}, token : IdTokens]

\* part_002 10: authHeader && authHeader.startsWith('Bearer ')
IsBearerAlways(authHeader) == TRUE
IsBearer(authHeader) == authHeader.scheme = "Bearer"

\* verifyIdToken throws
Rejected == <<"rejected">>

\* part_002 17: auth.verifyIdToken(idToken) yields the decoded token of the
\* principal the token was issued to, or throws: always for a token it has
\* not issued, and for an issued one when it has expired or the provider
\* cannot be reached
Verdicts(idToken) ==
  IF idToken \in Callers THEN {idToken, Rejected} ELSE {Rejected}

\* the routes of the model behind the middleware: chats (create, send),
\* users (unfollow), posts (like), stories (view), uploads (placeholder)
GatedOps == {"create", "send", "unfollow", "like", "view", "placeholder"}

\* part_003 24-28: a request to a route behind the middleware arrives
Arrive(r) ==
  /\ reqs[r].pc = "idle"
  /\ \A q \in Reqs : q < r => reqs[q].pc # "idle"
  /\ \E op \in GatedOps, authHeader \in AuthHeaders :
       Goto(r, [Idle EXCEPT !.pc = "auth", !.op = op, !.cred = authHeader])
  /\ UNCHANGED <<chats, messages, clock, derive, social, pager>>

\* part_002 8-17: without a bearer header 401, else the token is handed to
\* the identity provider
AuthHeader(r) ==
  /\ reqs[r].pc = "auth"
  /\ IF ~IsBearer(reqs[r].cred)
     THEN Reply(r, reqs[r], 401)
     ELSE Goto(r, [reqs[r] EXCEPT !.pc = "verify"])
  /\ UNCHANGED <<chats, messages, clock, derive, social, pager>>

\* part_002 17-26: the provider's answer; req.user is the decoded token and
\* next() hands the request to the router, or the catch answers 401
AuthVerify(r) ==
  /\ reqs[r].pc = "verify"
  /\ \E v \in Verdicts(reqs[r].cred.token) :
       IF v = Rejected
       THEN Reply(r, reqs[r], 401)
       ELSE Goto(r, [reqs[r] EXCEPT !.pc = "next", !.uid = v])
  /\ UNCHANGED <<chats, messages, clock, derive, social, pager>>

\* the handler that starts is the one of the request's route, and its
\* req.user.uid is the uid of the decoded token
Entered(r) ==
  LET e == IF reqs'[r].pc = "idle" THEN resp' ELSE reqs'[r]
  IN e.op = reqs[r].op /\ e.uid = reqs[r].uid

\* POST /:storyId/view, part_004 216-254; the collection stories is not
\* part of the state: the story is absent (404), seen or marked (200), or
\* the store fails (500)
StoryView(r) ==
  /\ CanStart(r)
  /\ \E uid \in Callers, status \in {200, 404, 500} :
       Reply(r, [Idle EXCEPT !.op = "view", !.uid = uid], status)
  /\ UNCHANGED <<chats, messages, clock, derive, social, pager>>

\* POST /placeholder, uploads.js 137-158: a URL is made of the body (200)
Placeholder(r) ==
  /\ CanStart(r)
  /\ \E uid \in Callers :
       Reply(r, [Idle EXCEPT !.op = "placeholder", !.uid = uid], 200)
  /\ UNCHANGED <<chats, messages, clock, derive, social, pager>>

\* ua follows ub
InitAuth ==
  /\ chats \in {[c \in AllChatIds |-> NoDoc], OneChat(ua, ub)}
  /\ messages = <<>>
  /\ reqs = [r \in Reqs |-> Idle]
  /\ resp = NoResp
  /\ clock = 0
  /\ derive = [x |-> <<>>, y |-> <<>>, xy |-> <<>>, yx |-> <<>>, done |-> FALSE]
  /\ users = [u \in UserIds |->
                [NewUser EXCEPT
                   !.following = IF u = ua THEN <<ub>> ELSE <<>>,
                   !.followers = IF u = ub THEN <<ua>> ELSE <<>>]]
  /\ follows = {<<ua, ub>>}
  /\ posts = [p \in PostIds |-> NoDoc]
  /\ comments = <<>>
  /\ notifications = <<>>
  /\ pushes = [t \in Tokens |-> 0]
  /\ rejected = {}
  /\ detached = {}
  /\ pager = NoPager

\* every handler is entered through the middleware; one request at a time
NextAuth ==
  \E r \in Reqs :
    \/ Quiet /\ Arrive(r)
    \/ AuthHeader(r) \/ AuthVerify(r)
    \/ reqs[r].pc = "next" /\ CreateGet(r, Dates) /\ Entered(r)
    \/ CreateSet(r)
    \/ reqs[r].pc = "next" /\ SendGet(r, ValidTexts, LaterDates) /\ Entered(r)
    \/ SendCommit(r) \/ SendAbort(r)
    \/ reqs[r].pc = "next" /\ UnfollowGet(r, Callers) /\ Entered(r)
    \/ UnfollowCurrent(r) \/ UnfollowCommit(r) \/ UnfollowAbort(r)
    \/ reqs[r].pc = "next" /\ LikeGet(r, Callers) /\ Entered(r)
    \/ reqs[r].pc = "next" /\ StoryView(r) /\ Entered(r)
    \/ reqs[r].pc = "next" /\ Placeholder(r) /\ Entered(r)

SpecAuth == InitAuth /\ [][NextAuth]_vars

(* ------------------------------------------------------------------ *)
(* The middleware in front of the routers                              *)
(* ------------------------------------------------------------------ *)
\* the collections
Store == <<chats, messages, social>>

\* request r is in the middleware (or its slot is free): no handler runs it
AtGate(q) == q.pc \in {"idle", "auth", "verify"}

\* the credential of q is no bearer header when the header is looked at,
\* or a token the provider has issued to nobody when it is verified
NoCredential(q) ==
  \/ q.pc = "auth" /\ q.cred.scheme # "Bearer"
  \/ q.pc = "verify" /\ q.cred.token \notin Callers

OnlyLists == \A q \in Reqs : reqs[q].op \in {"none", "list"}
OnlyReads == \A q \in Reqs : reqs[q].op \in {"none", "read"}

\* sends, lists and mark-reads of every principal, a mark-read in flight
\* together with a list
NextFlags ==
  \E r \in Reqs :
    \/ Quiet /\ SendGet(r, ValidTexts, LaterDates)
    \/ SendCommit(r)
    \/ SendAbort(r)
    \/ OnlyReads /\ ListGet(r, {NoId})
    \/ ListQuery(r)
    \/ ListCommit(r)
    \/ OnlyLists /\ ReadGet(r)
    \/ ReadQuery(r)
    \/ ReadCommit(r)

SpecFlags == InitChat /\ [][NextFlags]_vars

\* the fields of a message but its read flag
Content(m) == <<m.chatId, m.senderId, m.text, m.mediaUrl, m.type, m.createdAt>>

\* request r is a list-messages or mark-chat-read request that commits its
\* batch in this step, issued in the chat of m by a participant of it who
\* is not the sender of m
FlippedBy(r, m) ==
  /\ reqs[r].op \in {"list", "read"}
  /\ reqs[r].pc = "commit" /\ reqs'[r].pc = "idle"
  /\ resp'.status = 200
  /\ reqs[r].chatId = m.chatId
  /\ reqs[r].uid # m.senderId
  /\ IsParticipant(chats[m.chatId], reqs[r].uid)

\* C30: a message is never deleted, its chat id, sender id, text, media
\* reference, kind and creation time never change, and its read flag
\* changes only from false to true, in the step that commits a
\* list-messages or mark-chat-read request of the participant of its chat
\* who is not its sender.
C30_MessagesAppendOnly ==
  [][ /\ Len(messages') >= Len(messages)
      /\ \A i \in 1..Len(messages) :
           /\ Content(messages'[i]) = Content(messages[i])
           /\ messages[i].read => messages'[i].read
           /\ ~messages[i].read /\ messages'[i].read =>
                \E r \in Reqs : FlippedBy(r, messages[i]) ]_vars

\* a message of each participant of a chat is stored, the one read by a
\* mark-chat-read request of the other, the sender's own still unread
C30_Witness ==
  /\ resp.op = "read" /\ resp.status = 200
  /\ \E i, j \in 1..Len(messages) :
       /\ messages[i].chatId = messages[j].chatId
       /\ messages[i].senderId = resp.uid /\ ~messages[i].read
       /\ messages[j].senderId # resp.uid /\ messages[j].read

(* ------------------------------------------------------------------ *)
(* Mark-chat-read twice in a row                                       *)
(* ------------------------------------------------------------------ *)
\* request r is a mark-chat-read of the caller and chat of the last answer,
\* which was a successful mark-chat-read: where requests run one after the
\* other, the second of two in a row.  The chat exists and the caller takes
\* part in it, or the first would not have succeeded.
ReadAgain(r) ==
  /\ reqs[r].op = "read"
  /\ resp.op = "read" /\ resp.status = 200
  /\ resp.uid = reqs[r].uid /\ resp.chatId = reqs[r].chatId

\* C31: mark-chat-read issued twice in a row for the same caller and chat
\* leaves every read flag and both unread counters as the first call left
\* them, and the second call succeeds as the first did: no step of the
\* second call writes a message or the chat, and its answer is 200.
C31_ReadTwiceAsOnce ==
  [][ /\ \A r \in Reqs :
           ReadAgain(r) =>
             /\ messages' = messages /\ chats' = chats
             /\ reqs'[r].pc \in {"idle", "query"}
             /\ reqs'[r].pc = "idle" => resp'.status = 200
      /\ ( /\ resp.op = "read" /\ resp.status = 200
           /\ resp'.op = "read"
           /\ resp'.uid = resp.uid /\ resp'.chatId = resp.chatId )
         => resp'.status = 200 ]_vars

\* the second call is about to query after the first has flipped a message
\* and reset the caller's counter
C31_Witness ==
  \E r \in Reqs :
    /\ ReadAgain(r) /\ reqs[r].pc = "query"
    /\ GetOr0(chats[resp.chatId].unreadCount, resp.uid) = 0
    /\ \E i \in 1..Len(messages) :
         /\ messages[i].chatId = resp.chatId
         /\ messages[i].senderId # resp.uid /\ messages[i].read

(* ------------------------------------------------------------------ *)
(* Follow and unfollow requests that are to be refused                 *)
(* ------------------------------------------------------------------ *)
\* the step answers with a 4xx status and writes no user list, no follow
\* edge and no notification
Refused ==
  /\ resp'.status \in 400..499
  /\ UNCHANGED <<users, follows, notifications>>

\* C32: a follow request of A for B while the follow edge (A, B) exists, a
\* follow request of A for A, and an unfollow request of A for B while the
\* edge (A, B) does not exist are each answered 4xx and write nothing: the
\* step of the handler that looks at the caller's following list (the
\* self-follow check, for A = A) ends the request so.
C32_RefusedFollowsChangeNothing ==
  [][ /\ \A r \in Reqs :
           LET q == reqs[r]
           IN /\ ( /\ q.op = "follow" /\ q.pc = "current"
                   /\ <<q.uid, q.target>> \in follows
                   /\ reqs'[r] # q )
                 => reqs'[r] = Idle /\ Refused
              /\ ( /\ q.op = "unfollow" /\ q.pc = "current"
                   /\ <<q.uid, q.target>> \notin follows
                   /\ reqs'[r] # q )
                 => reqs'[r] = Idle /\ Refused
      /\ ( /\ resp' # resp /\ resp'.op = "follow"
           /\ resp'.uid = resp'.target )
         => Refused ]_vars

(* ------------------------------------------------------------------ *)
(* Status codes and error kinds                                        *)
(* ------------------------------------------------------------------ *)
\* the kind of failure an answer reports, by the place that sends it:
\* 401 a missing or rejected credential (part_002 11, 25); 403 a caller who
\* takes no part in the chat (chats.js 199, 303, 384); 404 a chat, user or
\* post that does not exist (192, 559, 630, part_003 181, 289); 500 the
\* handler's catch; 400 a conflict with what is stored when it is 'Already
\* following this user' (568), 'Not following this user' (639) or 'Post
\* already liked' (part_003 188), else a request that lacks what it must
\* carry (76, 181, 185, 553, part_003 282)
ErrorKind(answer) ==
  CASE answer.status = 401 -> "Unauthorized"
    [] answer.status = 403 -> "Forbidden"
    [] answer.status = 404 -> "NotFound"
    [] answer.status = 500 -> "DependencyFailure"
    [] answer.status = 400 ->
         IF \/ answer.op \in {"like", "unfollow"}
            \/ answer.op = "follow" /\ answer.uid # answer.target
         THEN "Conflict"
         ELSE "InvalidInput"
    [] OTHER -> "none"

\* ua and ub have signed up and share a chat; each has a post
InitErrors ==
  /\ InitEmpty
  /\ chats = OneChat(ua, ub)
  /\ users = [u \in UserIds |-> NewUser]
  /\ \E uid \in UserIds : posts = [p \in PostIds |-> NewPost(uid)]

\* sends, follows and likes of ua and ub, one request at a time, with the
\* bodies and targets that are refused among them
NextErrors ==
  \E r \in Reqs :
    \/ Quiet /\ SendGet(r, TextPayloads, LaterDates)
    \/ SendCommit(r) \/ SendAbort(r)
    \/ Quiet /\ FollowGet(r, UserIds)
    \/ FollowCurrent(r) \/ FollowCommit(r) \/ FollowAbort(r)
    \/ Quiet /\ LikeGet(r, UserIds)
    \/ LikeUpdate(r) \/ LikeUpdateFails(r) \/ LikeUserGet(r)
    \/ NotifySet(r, {clock})
    \/ NotifyUserGet(r)

SpecErrors == InitErrors /\ [][NextErrors]_vars

\* C33: across the chat, follow and post operations the status code of a
\* failure response determines the error kind and the kind determines the
\* status code: of any two failure responses in a row, the statuses are
\* equal exactly when the kinds are.
C33_StatusOneToOneWithKind ==
  [][ resp.status >= 400 /\ resp'.status >= 400 =>
        (resp'.status = resp.status <=> ErrorKind(resp') = ErrorKind(resp))
    ]_vars

(* ------------------------------------------------------------------ *)
(* The answer of a send and the dispatch it awaits                     *)
(* ------------------------------------------------------------------ *)
\* chats.js 221-241: the send transaction settles (it commits or fails);
\* nothing is assumed of the calls of the dispatch that follows it: the read
\* of the sender (246), the store calls of the dispatcher
\* (notifications.js 32, 35, 74) and the push gateway (66) may never settle
FairSend == \A r \in Reqs : WF_vars(SendCommitDispatch(r) \/ SendAbort(r))

SpecStall == InitNotify /\ [][NextNotify]_vars /\ FairSend

\* the send of request r has committed and has not been answered
Committed(r) ==
  reqs[r].op = "send" /\ reqs[r].pc \notin {"idle", "tx"}

\* C34: once the send transaction has committed the caller eventually
\* receives the success response, even if the calls of the notification
\* dispatch never settle.
C34_AnswerDoesNotWaitOnDispatch ==
  \A r \in Reqs :
    Committed(r) ~>
      (reqs[r].pc = "idle" /\ resp.op = "send" /\ resp.status = 201)

(* ------------------------------------------------------------------ *)
(* The participants and unread counters of a chat                      *)
(* ------------------------------------------------------------------ *)
\* get-or-create requests of ua and ub with each other and of ua with ua's
\* own id: every otherUserId is that of an existing user
SelfCreatePairs == CreatePairs \cup {<<ua, ua>>}

\* the chat ids those requests derive
SelfChatIds == {DeriveChatId(p[1], p[2]) : p \in SelfCreatePairs}

\* no chat yet
InitSelf ==
  /\ InitEmpty
  /\ chats = [c \in SelfChatIds |-> NoDoc]
  /\ users = [u \in UserIds |-> NewUser]
  /\ posts = [p \in PostIds |-> NoDoc]

\* creates, sends, lists and mark-reads, one request at a time
NextSelf ==
  \E r \in Reqs :
    \/ Quiet /\ CreateStart(r, SelfCreatePairs, LaterDates)
    \/ CreateSet(r)
    \/ Quiet /\ SendStart(r, SelfChatIds, ValidTexts, LaterDates, MaxMsgs)
    \/ SendCommit(r) \/ SendAbort(r)
    \/ Quiet /\ ListStart(r, SelfChatIds, {NoId})
    \/ ListQuery(r) \/ ListCommit(r)
    \/ Quiet /\ ReadGet(r)
    \/ ReadQuery(r) \/ ReadCommit(r)

SpecSelf == InitSelf /\ [][NextSelf]_vars

\* C35: every chat record has two distinct participants, and its unreadCount
\* has exactly those two ids as keys, each mapped to a non-negative integer,
\* after any sequence of get-or-create (with any existing otherUserId, the
\* caller's own included), send, list and mark-read.
C35_TwoParticipantsTwoCounters ==
  \A c \in DOMAIN chats :
    chats[c].exists =>
      LET p == chats[c].participants
          u == chats[c].unreadCount
      IN /\ Len(p) = 2 /\ p[1] # p[2]
         /\ DOMAIN u = {p[1], p[2]}
         /\ \A k \in DOMAIN u : u[k] \in Nat

(* ------------------------------------------------------------------ *)
(* Chat identity derivation of two pairs of users                      *)
(* ------------------------------------------------------------------ *)
\* 86-87 for caller x with other user y and for caller u with other user v
DeriveBoth ==
  /\ ~derive.done
  /\ derive' = [derive EXCEPT !.xy = DeriveChatId(derive.x, derive.y),
                              !.uv = DeriveChatId(derive.u, derive.v),
                              !.done = TRUE]
  /\ UNCHANGED <<chats, messages, reqs, resp, clock, social, pager>>

\* two pairs of user ids, each id a string of 1..MaxIdLen characters of an
\* alphabet that holds '_'
InitInject ==
  /\ chats = [c \in AllChatIds |-> NoDoc]
  /\ messages = <<>>
  /\ reqs = [r \in Reqs |-> Idle]
  /\ resp = NoResp
  /\ clock = 0
  /\ derive \in [x : Ids, y : Ids, u : Ids, v : Ids,
                 xy : {<<>>}, uv : {<<>>}, done : {FALSE}]
  /\ users = [w \in UserIds |-> NewUser]
  /\ posts = [p \in PostIds |-> NoDoc]
  /\ follows = {} /\ comments = <<>> /\ notifications = <<>>
  /\ pushes = [t \in Tokens |-> 0] /\ rejected = {} /\ detached = {}
  /\ pager = NoPager

SpecInject == InitInject /\ [][DeriveBoth]_vars

\* C36: two different unordered pairs of user ids never derive the same
\* chat id, for ids over an alphabet that includes the joining character.
C36_DeriveInjective ==
  derive.done /\ {derive.x, derive.y} # {derive.u, derive.v}
    => derive.xy # derive.uv

(* ------------------------------------------------------------------ *)
(* The time of the last message                                        *)
(* ------------------------------------------------------------------ *)
\* C37: within one chat lastMessageAt never decreases: every step, the
\* commits of overlapping sends included, leaves it greater than or equal
\* to its previous value.
C37_LastMessageAtNeverDecreases ==
  [][ \A c \in DOMAIN chats :
        chats[c].exists =>
          chats'[c].lastMessageAt >= chats[c].lastMessageAt ]_vars

(* ------------------------------------------------------------------ *)
(* Comments in flight together                                         *)
(* ------------------------------------------------------------------ *)
\* ua and ub have signed up without devices; every post is ua's
InitComments ==
  /\ InitEmpty
  /\ chats = [c \in AllChatIds |-> NoDoc]
  /\ users = [u \in UserIds |-> NewUser]
  /\ posts = [p \in PostIds |-> NewPost(ua)]

\* add-comment requests of ua and ub in any interleaving, those of ub
\* notifying ua
NextComments ==
  \E r \in Reqs :
    \/ CommentGet(r, UserIds, {"ok"})
    \/ CommentUserGet(r)
    \/ CommentCommit(r)
    \/ CommentAbort(r)
    \/ NotifySet(r, {clock})
    \/ NotifyUserGet(r)

SpecComments == InitComments /\ [][NextComments]_vars

\* the number of comment records stored for post p
CommentsOf(p) == Cardinality({i \in 1..Len(comments) : comments[i].postId = p})

\* C38: after any interleaving of add-comment requests on a post, once all
\* have completed, the post's commentCount equals the number of comment
\* records stored for it.
C38_CommentCountMatches ==
  Quiet => \A p \in PostIds :
             posts[p].exists => posts[p].commentCount = CommentsOf(p)

(* ------------------------------------------------------------------ *)
(* Mark-notifications-read without ids                                 *)
(* ------------------------------------------------------------------ *)
\* calls with no id list, with an empty one, and with one stored id
DefaultArguments ==
  {NoList, List({})} \cup {List({i}) : i \in 1..Len(notifications)}

\* sends that notify the other participant, and calls of
\* markNotificationsAsRead, one at a time
NextDefault ==
  \E r \in Reqs :
    \/ Quiet /\ SendGet(r, ValidTexts, LaterDates)
    \/ SendCommitDispatch(r)
    \/ SendAbort(r)
    \/ SendSenderGet(r)
    \/ NotifySet(r, {clock})
    \/ NotifyUserGet(r)
    \/ Quiet /\ NMarkCall(r, DefaultArguments)
    \/ NMarkCommit(r)

SpecDefault == InitChat /\ [][NextDefault]_vars

\* the unread notifications of userId
UnreadNotificationsOf(userId) ==
  {i \in 1..Len(notifications) :
     notifications[i].userId = userId /\ ~notifications[i].read}

\* C39: mark-notifications-read called with an explicit empty id list
\* behaves as the call with no id list: either sets read = true on every
\* unread notification of the calling user and on nothing else, and
\* succeeds.
C39_EmptyListAsNoList ==
  [][ \A r \in Reqs :
        ( /\ reqs[r].op = "nmark" /\ reqs[r].ids = {}
          /\ reqs'[r] # reqs[r] )
        => /\ reqs[r].flip = UnreadNotificationsOf(reqs[r].uid)
           /\ OnlyReadOf(UnreadNotificationsOf(reqs[r].uid))
           /\ reqs'[r] = Idle /\ resp'.status = 200 ]_vars

\* a call with an explicit empty list is about to commit the flip of an
\* unread notification of its caller
C39_Witness ==
  \E r \in Reqs :
    /\ reqs[r].op = "nmark" /\ reqs[r].pc = "commit"
    /\ reqs[r].listed /\ reqs[r].ids = {}
    /\ reqs[r].flip # {}

====
